---------------------------- MODULE Spec2Model ----------------------------
(***************************************************************************)
(* A model of the lavapond renderer (src/src/lib.rs and the modules it     *)
(* uses): the draw pool, the frame-slot synchronisation of draw_request,   *)
(* swapchain recreation, the camera, and the screen/world coordinate       *)
(* conversions.  Floating point values are IEEE-754 binary32 values, as    *)
(* the f32 of the source, computed with round-to-nearest-even.             *)
(***************************************************************************)
EXTENDS Integers, Sequences, FiniteSets, TLC

(***************************************************************************)
(* f32 arithmetic.  A finite value is [k |-> "num", s, m, e] and stands    *)
(* for (-1)^s * m * 2^e with m < 2^24; it is normal (m >= 2^23) or has the *)
(* least exponent -149 (subnormal, zero).  Infinities and NaN are kept as  *)
(* kinds of their own.  Every intermediate integer stays below 2^31.       *)
(***************************************************************************)
MantBits == 24
MinExp == -149
MaxExp == 104

Pow2(n) == 2 ^ n

\* The number of bits of n (0 for 0), n < 2^31, by halving.
Shift16(n) == IF n >= 65536 THEN 16 ELSE 0
Shift8(n) == IF n >= 256 THEN 8 ELSE 0
Shift4(n) == IF n >= 16 THEN 4 ELSE 0
BitLen4(n) == IF n >= 8 THEN 4 ELSE IF n >= 4 THEN 3 ELSE IF n >= 2 THEN 2 ELSE n
BitLen8(n) == Shift4(n) + BitLen4(n \div Pow2(Shift4(n)))
BitLen16(n) == Shift8(n) + BitLen8(n \div Pow2(Shift8(n)))
BitLen(n) == Shift16(n) + BitLen16(n \div Pow2(Shift16(n)))

FNum(s, m, e) == [k |-> "num", s |-> s, m |-> m, e |-> e]
FZero(s) == FNum(s, 0, MinExp)
FInf(s) == [k |-> "inf", s |-> s, m |-> 0, e |-> 0]
FNaN == [k |-> "nan", s |-> 0, m |-> 0, e |-> 0]

IsNum(a) == a.k = "num"
IsZero(a) == a.k = "num" /\ a.m = 0

\* The f32 of sign s, mantissa q <= 2^24 and exponent E >= MinExp: a
\* mantissa of 2^24 renormalises, an exponent above MaxExp overflows.
FPack(s, q, E) ==
    IF q = Pow2(MantBits)
    THEN (IF E + 1 > MaxExp THEN FInf(s) ELSE FNum(s, Pow2(MantBits - 1), E + 1))
    ELSE (IF E > MaxExp THEN FInf(s) ELSE FNum(s, q, E))

\* Quotient q, remainder r against half, ties to even.
RoundUp(q, r, half, sticky) == r > half \/ (r = half /\ (sticky \/ q % 2 = 1))

\* M shifted right by sh > 0 bits and rounded, at exponent E.
FShiftRound(s, M, sh, E, sticky) ==
    FPack(s,
          (M \div Pow2(sh))
            + (IF RoundUp(M \div Pow2(sh), M % Pow2(sh), Pow2(sh - 1), sticky) THEN 1 ELSE 0),
          E)

\* The exponent of the f32 nearest to a value of n mantissa bits at exponent e.
RoundExp(e, n) == IF e + n - MantBits < MinExp THEN MinExp ELSE e + n - MantBits

\* FRound with the bit length n of M and the target exponent E.
FRoundAt(s, M, e, sticky, n, E) ==
    IF E - e <= 0 THEN FNum(s, M * Pow2(e - E), E)
    ELSE IF E - e > n THEN FZero(s)
    ELSE FShiftRound(s, M, E - e, E, sticky)

FRoundLen(s, M, e, sticky, n) == FRoundAt(s, M, e, sticky, n, RoundExp(e, n))

\* Rounds (-1)^s * (M + f) * 2^e to the nearest f32, ties to even, where
\* 0 <= f < 1 and f > 0 exactly when sticky; M < 2^31.
FRound(s, M, e, sticky) ==
    IF M = 0 THEN FZero(s) ELSE FRoundLen(s, M, e, sticky, BitLen(M))

\* An integer of magnitude below 2^31 as f32 (`as f32`).
FromInt(i) == FRound(IF i < 0 THEN 1 ELSE 0, IF i < 0 THEN -i ELSE i, 0, FALSE)

FNeg(a) == IF a.k = "nan" THEN a ELSE [a EXCEPT !.s = 1 - a.s]
FAbs(a) == IF a.k = "nan" THEN a ELSE [a EXCEPT !.s = 0]

\* Mantissa scaled to 24 bits (the exponent may leave the f32 range: an
\* intermediate form only).
FNormLen(a, n) == [m |-> a.m * Pow2(MantBits - n), e |-> a.e - (MantBits - n)]
FNorm(a) == FNormLen(a, BitLen(a.m))

\* a < b on magnitudes [m, e] in the f32 form.
MagLt(a, b) == a.e < b.e \/ (a.e = b.e /\ a.m < b.m)

\* The magnitude of a finite or infinite value.
Mag(a) == IF a.k = "inf" THEN [m |-> 1, e |-> 1000] ELSE [m |-> a.m, e |-> a.e]

FLt(a, b) ==
    IF a.k = "nan" \/ b.k = "nan" THEN FALSE
    ELSE IF IsZero(a) /\ IsZero(b) THEN FALSE
    ELSE IF a.s # b.s THEN a.s = 1
    ELSE IF a.s = 0 THEN MagLt(Mag(a), Mag(b)) ELSE MagLt(Mag(b), Mag(a))

FEq(a, b) ==
    IF a.k = "nan" \/ b.k = "nan" THEN FALSE
    ELSE (IsZero(a) /\ IsZero(b)) \/ a = b

FLe(a, b) == FLt(a, b) \/ FEq(a, b)
FGt(a, b) == FLt(b, a)

\* The exact sum [s, M, e, sticky] of two finite non-zero values, hi the one
\* of larger exponent, d the difference of the exponents: the smaller value
\* keeps its bits when d <= 6 and leaves a sticky bit otherwise.
SumNear(hi, lo, d) ==
    [s      |-> IF hi.s = lo.s \/ hi.m * Pow2(d) >= lo.m THEN hi.s ELSE lo.s,
     M      |-> IF hi.s = lo.s THEN hi.m * Pow2(d) + lo.m
                ELSE IF hi.m * Pow2(d) >= lo.m THEN hi.m * Pow2(d) - lo.m
                ELSE lo.m - hi.m * Pow2(d),
     e      |-> lo.e,
     sticky |-> FALSE]

SumFarParts(hi, lo, B, st) ==
    [s      |-> hi.s,
     M      |-> IF hi.s = lo.s THEN hi.m * 64 + B
                ELSE IF st THEN hi.m * 64 - B - 1 ELSE hi.m * 64 - B,
     e      |-> hi.e - 6,
     sticky |-> st]

SumFar(hi, lo, d) ==
    SumFarParts(hi, lo,
                IF d > 30 THEN 0 ELSE (lo.m * 64) \div Pow2(d),
                IF d > 30 THEN TRUE ELSE (lo.m * 64) % Pow2(d) # 0)

ExactSum(hi, lo, d) == IF d <= 6 THEN SumNear(hi, lo, d) ELSE SumFar(hi, lo, d)

FRoundSum(x) == IF x.M = 0 THEN FZero(0) ELSE FRound(x.s, x.M, x.e, x.sticky)

\* Sum of two finite non-zero values, hi the one of larger exponent.
AddOrdered(hi, lo) == FRoundSum(ExactSum(hi, lo, hi.e - lo.e))

FAdd(a, b) ==
    IF a.k = "nan" \/ b.k = "nan" THEN FNaN
    ELSE IF a.k = "inf" THEN (IF b.k = "inf" /\ b.s # a.s THEN FNaN ELSE a)
    ELSE IF b.k = "inf" THEN b
    ELSE IF IsZero(a) /\ IsZero(b) THEN FZero(IF a.s = 1 /\ b.s = 1 THEN 1 ELSE 0)
    ELSE IF IsZero(a) THEN b
    ELSE IF IsZero(b) THEN a
    ELSE AddOrdered(IF a.e >= b.e THEN a ELSE b, IF a.e >= b.e THEN b ELSE a)

FSub(a, b) == FAdd(a, FNeg(b))

\* The 48-bit product of two 24-bit mantissas as [hi, lo], the bits above
\* and below bit 24, from 12-bit limbs.
MulLimbs(a1, a0, b1, b0) ==
    [hi |-> a1 * b1 + (a1 * b0 + a0 * b1) \div 4096
              + ((((a1 * b0 + a0 * b1) % 4096) * 4096 + a0 * b0) \div 16777216),
     lo |-> (((a1 * b0 + a0 * b1) % 4096) * 4096 + a0 * b0) % 16777216]

MulMant(x, y) == MulLimbs(x \div 4096, x % 4096, y \div 4096, y % 4096)

FRoundProduct(s, p, e) == FRound(s, p.hi * 64 + p.lo \div 262144, e + 18, p.lo % 262144 # 0)

MulNorm(s, x, y) == FRoundProduct(s, MulMant(x.m, y.m), x.e + y.e)

FMul(a, b) ==
    IF a.k = "nan" \/ b.k = "nan" THEN FNaN
    ELSE IF a.k = "inf" \/ b.k = "inf"
    THEN (IF IsZero(a) \/ IsZero(b) THEN FNaN ELSE FInf((a.s + b.s) % 2))
    ELSE IF IsZero(a) \/ IsZero(b) THEN FZero((a.s + b.s) % 2)
    ELSE MulNorm((a.s + b.s) % 2, FNorm(a), FNorm(b))

\* Seven more quotient bits of a long division by d: qr = <<quotient, remainder>>.
DivStep(qr, d) == <<qr[1] * 128 + (qr[2] * 128) \div d, (qr[2] * 128) % d>>

FRoundQuotient(s, qr, e) == FRound(s, qr[1], e - 28, qr[2] # 0)

DivNorm(s, x, y) ==
    FRoundQuotient(s,
                   DivStep(DivStep(DivStep(DivStep(<<x.m \div y.m, x.m % y.m>>, y.m), y.m),
                                   y.m), y.m),
                   x.e - y.e)

FDiv(a, b) ==
    IF a.k = "nan" \/ b.k = "nan" THEN FNaN
    ELSE IF a.k = "inf" THEN (IF b.k = "inf" THEN FNaN ELSE FInf((a.s + b.s) % 2))
    ELSE IF b.k = "inf" THEN FZero((a.s + b.s) % 2)
    ELSE IF IsZero(b) THEN (IF IsZero(a) THEN FNaN ELSE FInf((a.s + b.s) % 2))
    ELSE IF IsZero(a) THEN FZero((a.s + b.s) % 2)
    ELSE DivNorm((a.s + b.s) % 2, FNorm(a), FNorm(b))

(***************************************************************************)
(* Coordinate systems (coord_sys.rs) and the renderer's own conversions.   *)
(* A window size is <<width, height>> in pixels (u32); a position is       *)
(* <<x, y>> of f32.                                                        *)
(***************************************************************************)
F32One == FromInt(1)
F32Half == FDiv(FromInt(1), FromInt(2))

\* A variant that gives the larger extent the unit range.
world_larger_unit(width, height) ==
    IF FGt(width, height)
    THEN <<F32One, FDiv(height, width)>>
    ELSE <<FDiv(width, height), F32One>>

\* (world_right, world_top) of a screen of the given f32 extents.
world(width, height) ==
    IF FGt(width, height)
    THEN <<FDiv(width, height), F32One>>
    ELSE <<F32One, FDiv(height, width)>>

WorldPos2D_convert(window_size, screen_x, screen_y) ==
    LET screen_right  == FromInt(window_size[1])
        screen_bottom == FromInt(window_size[2])
        w             == world(screen_right, screen_bottom)
        world_right   == w[1]
        world_top     == w[2]
        world_x == FAdd(FNeg(world_right),
                        FMul(FDiv(screen_x, screen_right),
                             FSub(world_right, FNeg(world_right))))
        world_y == FAdd(world_top,
                        FMul(FDiv(screen_y, screen_bottom),
                             FSub(FNeg(world_top), world_top)))
    IN <<world_x, world_y>>

\* A variant that scales both coordinates by the window width.
ScreenPos2D_convert_width(window_size, world_x, world_y) ==
    LET screen_right  == FromInt(window_size[1])
        screen_bottom == FromInt(window_size[2])
        w             == world(screen_right, screen_bottom)
        world_right   == w[1]
        world_top     == w[2]
        screen_x == FMul(FDiv(FSub(world_x, FNeg(world_right)),
                              FSub(world_right, FNeg(world_right))),
                         screen_right)
        screen_y == FMul(FDiv(FSub(world_y, world_top),
                              FSub(FNeg(world_top), world_top)),
                         screen_right)
    IN <<screen_x, screen_y>>

ScreenPos2D_convert(window_size, world_x, world_y) ==
    LET screen_right  == FromInt(window_size[1])
        screen_bottom == FromInt(window_size[2])
        w             == world(screen_right, screen_bottom)
        world_right   == w[1]
        world_top     == w[2]
        screen_x == FMul(FDiv(FSub(world_x, FNeg(world_right)),
                              FSub(world_right, FNeg(world_right))),
                         screen_right)
        screen_y == FMul(FDiv(FSub(world_y, world_top),
                              FSub(FNeg(world_top), world_top)),
                         screen_bottom)
    IN <<screen_x, screen_y>>

\* Renderer::screen_to_world, on the camera's cached <<width, height>> (f32).
screen_to_world(cam_size, position) ==
    LET half_width  == FMul(cam_size[1], F32Half)
        half_height == FMul(cam_size[2], F32Half)
    IN <<FDiv(FSub(position[1], half_width), half_width),
         FDiv(FSub(position[2], half_height), half_height)>>

\* Renderer::world_to_screen, on the camera's cached <<width, height>> (f32).
world_to_screen(cam_size, position) ==
    LET half_width  == FMul(cam_size[1], F32Half)
        half_height == FMul(cam_size[2], F32Half)
    IN <<FAdd(FMul(position[1], half_width), half_width),
         FAdd(FMul(position[2], half_height), half_height)>>

(***************************************************************************)
(* The object pool (resources.rs).  The mesh files are not part of the     *)
(* sources: the table holds 52 glyph meshes followed by 6 shape meshes as  *)
(* preload() loads them, with stand-in triangle counts.                    *)
(***************************************************************************)
CIRCLE == 52
CIRCLE_BORDER == 53
ROUNDED_RECTANGLE == 54
RECTANGLE_BORDER == 55
ROUNDED_RECTANGLE_BORDER == 56
RECTANGLE == 57
NumMeshes == 58

\* Mesh i of the table (0-based): a contiguous range of the index buffer.
ObjectData(i) ==
    [index_count  |-> 3 * (1 + (i % 3)),
     index_offset |-> 18 * (i \div 3) + (CASE i % 3 = 0 -> 0 [] i % 3 = 1 -> 3 [] OTHER -> 9)]

object_pool ==
    [pool     |-> [i \in 0..(NumMeshes - 1) |-> ObjectData(i)],
     vertices |-> 3 * NumMeshes]

\* Glyph table: entry b+1 is the mesh of byte b; 255 nothing, 254 space,
\* 253 new line.
CHAR_OBJECT_POOL ==
    <<
       255, 255, 255, 255, 255, 255, 255, 255, 255, 255, 253, 255, 255, 255, 255,
       255, 255, 255, 255, 255, 255, 255, 255, 255, 255, 255, 255, 255, 255, 255,
       255, 255, 254, 1, 2, 0, 0, 0, 0, 3, 4, 5, 6, 7, 10,
       9, 12, 11, 16, 17, 18, 19, 20, 21, 22, 23, 24, 25, 8, 0,
       0, 13, 0, 14, 0, 26, 27, 28, 29, 30, 31, 32, 33, 34, 35,
       36, 37, 38, 39, 40, 41, 42, 43, 44, 45, 46, 47, 48, 49, 50,
       51, 4, 0, 5, 0, 15, 0, 26, 27, 28, 29, 30, 31, 32, 33,
       34, 35, 36, 37, 38, 39, 40, 41, 42, 43, 44, 45, 46, 47, 48,
       49, 50, 51, 4, 0, 5, 0, 255, 255, 255, 255, 255, 255, 255, 255,
       255, 255, 255, 255, 255, 255, 255, 255, 255, 255, 255, 255, 255, 255, 255,
       255, 255, 255, 255, 255, 255, 255, 255, 255, 255, 255, 255, 255, 255, 255,
       255, 255, 255, 255, 255, 255, 255, 255, 255, 255, 255, 255, 255, 255, 255,
       255, 255, 255, 255, 255, 255, 255, 255, 255, 255, 255, 255, 255, 255, 255,
       255, 255, 255, 255, 255, 255, 255, 255, 255, 255, 255, 255, 255, 255, 255,
       255, 255, 255, 255, 255, 255, 255, 255, 255, 255, 255, 255, 255, 255, 255,
       255, 255, 255, 255, 255, 255, 255, 255, 255, 255, 255, 255, 255, 255, 255,
       255, 255, 255, 255, 255, 255, 255, 255, 255, 255, 255, 255, 255, 255, 255
    >>

ShapeTypes == {"Circle", "CircleBorder", "Rectangle", "RectangleBorder",
               "RoundedRectangle", "RoundedRectangleBorder"}

\* A variant in which Rectangle is one past the last mesh.
ShapeObjectIndexPast(shape) ==
    CASE shape = "Circle" -> CIRCLE
      [] shape = "CircleBorder" -> CIRCLE_BORDER
      [] shape = "Rectangle" -> RECTANGLE + 1
      [] shape = "RectangleBorder" -> RECTANGLE_BORDER
      [] shape = "RoundedRectangle" -> ROUNDED_RECTANGLE
      [] shape = "RoundedRectangleBorder" -> ROUNDED_RECTANGLE_BORDER

\* The match of Renderer::shape on the shape type.
ShapeObjectIndex(shape) ==
    CASE shape = "Circle" -> CIRCLE
      [] shape = "CircleBorder" -> CIRCLE_BORDER
      [] shape = "Rectangle" -> RECTANGLE
      [] shape = "RectangleBorder" -> RECTANGLE_BORDER
      [] shape = "RoundedRectangle" -> ROUNDED_RECTANGLE
      [] shape = "RoundedRectangleBorder" -> ROUNDED_RECTANGLE_BORDER

(***************************************************************************)
(* Draw instances: Renderer::shape and Renderer::text as functions of the  *)
(* camera position and their arguments, giving the instances appended.     *)
(***************************************************************************)
F32Zero == FZero(0)
Vec3(x, y, z) == <<x, y, z>>

\* A variant that adds the camera position under the other anchor.
ShapePositionSwapped(cam_pos, center, anchor_type) ==
    IF anchor_type = "Unlocked"
    THEN Vec3(FAdd(center[1], cam_pos[1]), FAdd(center[2], cam_pos[2]), F32Zero)
    ELSE Vec3(center[1], center[2], F32Zero)

\* Position of a shape centred at center under the anchor.
ShapePosition(cam_pos, center, anchor_type) ==
    IF anchor_type = "Locked"
    THEN Vec3(FAdd(center[1], cam_pos[1]), FAdd(center[2], cam_pos[2]), F32Zero)
    ELSE Vec3(center[1], center[2], F32Zero)

\* The instance Renderer::shape pushes.
ShapeInstance(cam_pos, size_x, size_y, rotation, center, color, shape, anchor_type) ==
    [position     |-> ShapePosition(cam_pos, center, anchor_type),
     rotation     |-> rotation,
     scale        |-> Vec3(size_x, size_y, F32Zero),
     color        |-> color,
     object_index |-> ShapeObjectIndex(shape)]

\* The f32 literals 0.03 and 0.05 of Renderer::text.
F32_0_03 == FDiv(FromInt(3), FromInt(100))
F32_0_05 == FDiv(FromInt(5), FromInt(100))

TextAnchor(cam_pos, pad_x, pad_y, top_left, anchor_type) ==
    IF anchor_type = "Locked"
    THEN Vec3(FAdd(FAdd(top_left[1], cam_pos[1]), pad_x),
              FSub(FAdd(top_left[2], cam_pos[2]), pad_y),
              F32Zero)
    ELSE Vec3(FAdd(top_left[1], pad_x), FSub(top_left[2], pad_y), F32Zero)

GlyphInstance(cursor, scale, char_index) ==
    [position     |-> cursor,
     rotation     |-> F32Zero,
     scale        |-> Vec3(scale, scale, F32Zero),
     color        |-> "EMERALD",
     object_index |-> char_index]

\* A variant of the iteration in which a byte without a glyph still moves
\* the cursor to the right.
TextStepSkipAdvances(byte, t, st) ==
    LET char_index == CHAR_OBJECT_POOL[byte + 1]
    IN IF char_index = 253
       THEN [st EXCEPT !.cursor = Vec3(t.anchor[1], FSub(st.cursor[2], t.pad_y),
                                       st.cursor[3])]
       ELSE [cursor |-> Vec3(FAdd(st.cursor[1], t.pad_x), st.cursor[2], st.cursor[3]),
             out    |-> IF char_index \notin {254, 255}
                        THEN Append(st.out, GlyphInstance(st.cursor, t.scale, char_index))
                        ELSE st.out]

\* A variant of the iteration in which a new line keeps the cursor's x.
TextStepNoReturn(byte, t, st) ==
    LET char_index == CHAR_OBJECT_POOL[byte + 1]
    IN IF char_index = 255 THEN st
       ELSE IF char_index = 253
       THEN [st EXCEPT !.cursor = Vec3(st.cursor[1], FSub(st.cursor[2], t.pad_y),
                                       st.cursor[3])]
       ELSE [cursor |-> Vec3(FAdd(st.cursor[1], t.pad_x), st.cursor[2], st.cursor[3]),
             out    |-> IF char_index # 254
                        THEN Append(st.out, GlyphInstance(st.cursor, t.scale, char_index))
                        ELSE st.out]

\* One iteration of the loop of Renderer::text: st is [cursor, out], the
\* cursor position and the instances pushed so far; t holds scale, pad_x,
\* pad_y and the anchor position.
TextStep(byte, t, st) ==
    LET char_index == CHAR_OBJECT_POOL[byte + 1]
    IN IF char_index = 255 THEN st
       ELSE IF char_index = 253
       THEN [st EXCEPT !.cursor = Vec3(t.anchor[1], FSub(st.cursor[2], t.pad_y),
                                       st.cursor[3])]
       ELSE [cursor |-> Vec3(FAdd(st.cursor[1], t.pad_x), st.cursor[2], st.cursor[3]),
             out    |-> IF char_index # 254
                        THEN Append(st.out, GlyphInstance(st.cursor, t.scale, char_index))
                        ELSE st.out]

\* The loop of Renderer::text over bytes lo..hi of the text, in order.  The
\* range is halved, and the state after the first half is computed before
\* the second half runs, so that the evaluation stays shallow.
RECURSIVE TextLoop(_, _, _, _, _)
TextLoop(text, lo, hi, t, st) ==
    IF lo > hi THEN st
    ELSE IF lo = hi THEN TextStep(text[lo], t, st)
    ELSE LET mid == (lo + hi) \div 2
         IN CHOOSE result \in {TextLoop(text, mid + 1, hi, t, left) :
                                 left \in {TextLoop(text, lo, mid, t, st)}} : TRUE

\* The instances Renderer::text appends to the draw pool.
TextInstances(cam_pos, text, scale, top_left, anchor_type) ==
    LET pad_x  == FMul(scale, F32_0_03)
        pad_y  == FMul(scale, F32_0_05)
        anchor == TextAnchor(cam_pos, pad_x, pad_y, top_left, anchor_type)
        t      == [scale |-> scale, pad_x |-> pad_x, pad_y |-> pad_y, anchor |-> anchor]
    IN TextLoop(text, 1, Len(text), t, [cursor |-> anchor, out |-> <<>>]).out

(***************************************************************************)
(* Render statistics (RenderStats).                                        *)
(***************************************************************************)
RECURSIVE FormatNat(_)
\* The decimal digits of n as bytes ("{}" of an unsigned integer).
FormatNat(n) == IF n < 10 THEN <<48 + n>> ELSE Append(FormatNat(n \div 10), 48 + (n % 10))

StrFps == <<102, 112, 115, 58, 32>>
StrRequestTime == <<10, 114, 101, 113, 117, 101, 115, 116, 32, 116, 105, 109, 101, 58, 32>>
StrPoolCreationTime == <<32, 117, 115, 10, 112, 111, 111, 108, 32, 99, 114, 101, 97, 116, 105, 111, 110, 32, 116, 105, 109, 101, 58>>
StrElements == <<10, 101, 108, 101, 109, 101, 110, 116, 115, 58>>
StrVertices == <<10, 118, 101, 114, 116, 105, 99, 101, 115, 58>>

RenderStats_new ==
    [turned_off                   |-> FALSE,
     frames_per_sec               |-> 0,
     last_draw_request_time       |-> 0,
     last_draw_pool_creation_time |-> 0,
     last_draw_pool_elements      |-> 0,
     last_draw_pool_vertices      |-> 0,
     frame_counter                |-> 0]

as_text(stats) ==
    StrFps \o FormatNat(stats.frames_per_sec)
      \o StrRequestTime \o FormatNat(stats.last_draw_request_time)
      \o StrPoolCreationTime \o FormatNat(stats.last_draw_pool_creation_time)
      \o StrElements \o FormatNat(stats.last_draw_pool_elements)
      \o StrVertices \o FormatNat(stats.last_draw_pool_vertices)

\* update_render_stats: second says whether a second has passed since the
\* frame counter was last reset.
update_render_stats(stats, pool_len, second) ==
    IF stats.turned_off THEN stats
    ELSE [stats EXCEPT
            !.frames_per_sec = IF second THEN stats.frame_counter ELSE @,
            !.frame_counter  = IF second THEN 0 ELSE @ + 1,
            !.last_draw_pool_elements = pool_len,
            !.last_draw_pool_vertices = object_pool.vertices]


(***************************************************************************)
(* Bounds of the model and the inputs the environment draws from.          *)
(***************************************************************************)
\* Calls of draw_request in one run.
MaxCalls == 3
\* Other calls of the application (shape, shift, recreate_swapchain on a
\* resize) in one run.
MaxOps == 2
\* API calls that fail in one run.
MaxFaults == 1
\* Frames the application renders in a second.
FramesPerSecond == 2
\* The times the timers of the statistics measure, in microseconds.
ElapsedMicros == {0}

MAX_FRAMES_INFLIGHT == 2
Slots == 0..(MAX_FRAMES_INFLIGHT - 1)

\* Window sizes <<width, height>>; a minimized window has a zero extent.
InitialWindowSize == <<800, 600>>
WindowSizes == {<<800, 600>>, <<600, 800>>, <<0, 600>>, <<800, 0>>}

\* The surface as its driver presents it: <<min_image_count,
\* max_image_count (0: no limit), images the driver adds to the count a
\* swapchain is created with>>.
SurfaceCaps == {<<1, 0, 0>>, <<1, 0, 1>>}

\* Arguments of Renderer::shape the application passes.
ShapeArgs ==
    LET center == <<FDiv(FromInt(1), FromInt(4)), FNeg(F32Half)>>
    IN {[size_x |-> FromInt(1), size_y |-> FromInt(2), rotation |-> FromInt(90),
         center |-> center, color |-> "RED", shape |-> "Circle", anchor |-> "Locked"],
        [size_x |-> FromInt(2), size_y |-> FromInt(1), rotation |-> F32Zero,
         center |-> center, color |-> "BLUE", shape |-> "Rectangle", anchor |-> "Unlocked"]}

\* Longest text passed to Renderer::text.
MaxTextLen == 3
\* The bytes the texts are made of: 'A', 'B', space, new line, and a byte
\* without a glyph (of a multi-byte UTF-8 character).
TextBytes == {65, 66, 32, 10, 195}
RECURSIVE Texts(_)
\* The texts of at most n bytes.
Texts(n) ==
    IF n = 0 THEN {<<>>}
    ELSE Texts(n - 1) \cup {Append(s, b) : s \in {u \in Texts(n - 1) : Len(u) = n - 1},
                                           b \in TextBytes}
\* Arguments of Renderer::text the application passes.
TextArgs ==
    [text : Texts(MaxTextLen), scale : {FromInt(2)},
     top_left : {<<FNeg(F32One), F32Half>>}, anchor : {"Locked", "Unlocked"}]

\* Arguments <<delta_x, delta_y>> of Camera::shift.
ShiftArgs == {<<F32Half, FDiv(FromInt(1), FromInt(4))>>}

(***************************************************************************)
(* State.                                                                  *)
(***************************************************************************)
VARIABLES
    window,          \* window.inner_size(), <<width, height>>
    caps,            \* surface capabilities <<min_image_count, max_image_count>>
    current_frame,   \* Renderer.current_frame
    draw_pool,       \* Renderer.draw_pool
    camera,          \* Renderer.camera
    render_stats,    \* Renderer.render_stats
    fences_inflight, \* slot -> whether the in-flight fence is signaled
    gpu_pending,     \* slot -> submissions executing that signal the slot's fence
    cmd,             \* slot -> the draw command buffer: [state, commands]
    uniform_buffers, \* slot -> the view-projection data in the mapped buffer
    swapchain,       \* Renderer.swapchain (a handle)
    image_views,     \* Renderer.image_views (handles)
    frame_buffers,   \* Renderer.frame_buffers (handles)
    viewport,        \* Renderer.viewport <<width, height>> (f32)
    scissor,         \* Renderer.scissor.extent <<width, height>>
    objects,         \* handle -> the Vulkan object created for it
    pc,              \* position inside draw_request, "idle" outside
    image_index,     \* draw_request's local image_index
    ret,             \* the last call: [op, arg, result]
    ops,             \* calls made so far, by kind
    coord,           \* the coordinate conversion under test
    unit             \* another part of the program run on its own

vars == <<window, caps, current_frame, draw_pool, camera, render_stats,
          fences_inflight, gpu_pending, cmd, uniform_buffers, swapchain,
          image_views, frame_buffers, viewport, scissor, objects, pc,
          image_index, ret, ops, coord, unit>>

swapchain_vars == <<swapchain, image_views, frame_buffers, viewport, scissor, objects>>
sync_vars == <<fences_inflight, gpu_pending, cmd, uniform_buffers>>

(***************************************************************************)
(* Camera (camera.rs).                                                     *)
(***************************************************************************)
\* The orthographic projection matrix: its non-constant entries.
Projection_orthographic(left_plane, right_plane, bottom_plane, top_plane, near_plane, far_plane) ==
    [x_axis_x |-> FDiv(FromInt(2), FSub(right_plane, left_plane)),
     y_axis_y |-> FDiv(FromInt(2), FSub(top_plane, bottom_plane)),
     z_axis_z |-> FDiv(FromInt(1), FSub(near_plane, far_plane)),
     w_axis   |-> <<FDiv(FNeg(FAdd(right_plane, left_plane)), FSub(right_plane, left_plane)),
                    FDiv(FNeg(FAdd(bottom_plane, top_plane)), FSub(bottom_plane, top_plane)),
                    FDiv(near_plane, FSub(near_plane, far_plane)),
                    FromInt(1)>>]

\* The planes ProjectionParams::orthographic passes for the cached f32
\* width and height: <<left, right, bottom, top>>.
orthographic_planes(width, height) ==
    IF FGt(width, height)
    THEN <<FromInt(-1), FromInt(1), FDiv(height, width), FDiv(FNeg(height), width)>>
    ELSE <<FDiv(FNeg(width), height), FDiv(width, height), FromInt(1), FromInt(-1)>>

\* ProjectionParams::orthographic for the cached f32 width and height.
orthographic(width, height) ==
    LET planes == orthographic_planes(width, height)
    IN Projection_orthographic(planes[1], planes[2], planes[3], planes[4],
                               FromInt(-5), FromInt(5))

\* The x and y of the projection matrix times the point (x, y, 0, 1).
project_point(projection, position) ==
    <<FAdd(FMul(projection.x_axis_x, position[1]), projection.w_axis[1]),
      FAdd(FMul(projection.y_axis_y, position[2]), projection.w_axis[2])>>

\* The pixel of a point in normalised device coordinates, by the viewport
\* of the renderer: offset 0, extents <<width, height>>.
viewport_pixel(extents, ndc) ==
    <<FMul(FMul(FAdd(ndc[1], FromInt(1)), F32Half), extents[1]),
      FMul(FMul(FAdd(ndc[2], FromInt(1)), F32Half), extents[2])>>

\* Mat4::look_at_rh from the camera position to the point below it.
look_at_rh(position) ==
    [eye |-> position, target |-> Vec3(position[1], position[2], F32Zero),
     up |-> Vec3(F32Zero, F32One, F32Zero)]

Camera_new(window_size, position) ==
    [position   |-> position,
     width      |-> FromInt(window_size[1]),
     height     |-> FromInt(window_size[2]),
     view       |-> look_at_rh(position),
     projection |-> orthographic(FromInt(window_size[1]), FromInt(window_size[2]))]

Camera_shift(cam, delta_x, delta_y) ==
    LET position == Vec3(FAdd(cam.position[1], delta_x), FSub(cam.position[2], delta_y),
                         cam.position[3])
    IN [cam EXCEPT !.position = position, !.view = look_at_rh(position)]

\* A variant that recomputes the projection and keeps the cached size.
Camera_update_projection_stale(cam, window_size) ==
    IF FEq(cam.width, FromInt(window_size[1])) /\ FEq(cam.height, FromInt(window_size[2]))
    THEN cam
    ELSE [cam EXCEPT !.projection = orthographic(FromInt(window_size[1]),
                                                 FromInt(window_size[2]))]

\* Camera::update_projection for a window of the given inner size.
Camera_update_projection(cam, window_size) ==
    IF FEq(cam.width, FromInt(window_size[1])) /\ FEq(cam.height, FromInt(window_size[2]))
    THEN cam
    ELSE [cam EXCEPT !.width = FromInt(window_size[1]),
                     !.height = FromInt(window_size[2]),
                     !.projection = orthographic(FromInt(window_size[1]),
                                                 FromInt(window_size[2]))]

(***************************************************************************)
(* Swapchain, image views and framebuffers.  A handle is an index into     *)
(* objects, which keeps what was created and whether it still lives.       *)
(***************************************************************************)
\* The image count requested from the surface capabilities.
MinImageCount(c) ==
    LET count == c[1] + 1
    IN IF c[2] > 0 /\ count > c[2] THEN c[2] ELSE count

NewObject(kind, extent) == [kind |-> kind, alive |-> TRUE, extent |-> extent]

\* The number of images get_swapchain_images returns for a swapchain of the
\* surface: the driver creates at least min_image_count images.
SwapchainImages(c) == MinImageCount(c) + c[3]

\* A swapchain object, with the number of images the driver gave it.
NewSwapchain(extent, images) ==
    [kind |-> "swapchain", alive |-> TRUE, extent |-> extent, images |-> images]

\* objs with n more objects of a kind appended.
RECURSIVE CreateObjects(_, _, _, _)
CreateObjects(objs, kind, extent, n) ==
    IF n = 0 THEN objs
    ELSE CreateObjects(Append(objs, NewObject(kind, extent)), kind, extent, n - 1)

\* The handles of the last n objects of objs.
LastHandles(objs, n) == [i \in 1..n |-> Len(objs) - n + i]

\* objs with the objects of the given handles destroyed.
DestroyObjects(objs, handles) ==
    [h \in 1..Len(objs) |-> IF h \in handles THEN [objs[h] EXCEPT !.alive = FALSE] ELSE objs[h]]

Range(s) == {s[i] : i \in 1..Len(s)}

\* A variant that creates a framebuffer for the first image view only.
FrameBuffer_new_first(objs, views, extent) ==
    CreateObjects(objs, "framebuffer", extent, IF Len(views) = 0 THEN 0 ELSE 1)

\* FrameBuffer::new: one framebuffer for every image view.
FrameBuffer_new(objs, views, extent) ==
    CreateObjects(objs, "framebuffer", extent, Len(views))


\* A variant of the guard that returns only when both extents are zero.
ZeroExtentBoth(new_size) == new_size[2] = 0 /\ new_size[1] = 0

\* The guard of recreate_swapchain's early return.
ZeroExtent(new_size) == new_size[2] = 0 \/ new_size[1] = 0

\* What recreate_swapchain leaves behind: st holds the renderer's swapchain
\* fields, c the surface capabilities; fail names the API call that fails
\* ("none": no call fails) and after how many created objects.
recreate_swapchain(st, new_size, c, fail) ==
    IF ZeroExtent(new_size) THEN [st EXCEPT !.result = "Ok"]
    ELSE IF fail.at = "device_wait_idle" THEN [st EXCEPT !.result = "Err"]
    ELSE
      LET old == {st.swapchain} \cup Range(st.image_views) \cup Range(st.frame_buffers)
          st1 == [st EXCEPT !.objects = DestroyObjects(st.objects, old),
                            !.viewport = <<FromInt(new_size[1]), FromInt(new_size[2])>>,
                            !.scissor = new_size]
          o2  == Append(st1.objects, NewSwapchain(new_size, SwapchainImages(c)))
          st2 == [st1 EXCEPT !.objects = o2, !.swapchain = Len(o2)]
          n   == o2[st2.swapchain].images
          o3  == CreateObjects(o2, "image_view", new_size, n)
          st3 == [st2 EXCEPT !.objects = o3, !.image_views = LastHandles(o3, n)]
          o4  == FrameBuffer_new(o3, st3.image_views, new_size)
          st4 == [st3 EXCEPT !.objects = o4,
                             !.frame_buffers = LastHandles(o4, Len(o4) - Len(o3))]
      IN CASE fail.at \in {"get_surface_capabilities", "create_swapchain"} ->
                [st1 EXCEPT !.result = "Err"]
           [] fail.at = "get_swapchain_images" -> [st2 EXCEPT !.result = "Err"]
           [] fail.at = "create_image_view" ->
                [st2 EXCEPT !.objects = CreateObjects(o2, "image_view", new_size, fail.after),
                            !.result = "Err"]
           [] fail.at = "create_framebuffer" ->
                [st3 EXCEPT !.objects = CreateObjects(o3, "framebuffer", new_size, fail.after),
                            !.result = "Err"]
           [] OTHER -> [st4 EXCEPT !.result = "Ok"]

NoFault == [at |-> "none", after |-> 0]

\* The ways recreate_swapchain can fail with n images.
RecreateFaults(n) ==
    [at : {"device_wait_idle", "get_surface_capabilities", "create_swapchain",
           "get_swapchain_images"}, after : {0}]
      \cup [at : {"create_image_view", "create_framebuffer"}, after : 0..(n - 1)]

(***************************************************************************)
(* Command recording (draw_request, draw_from_pool).                       *)
(***************************************************************************)
\* Mat4::from_scale_rotation_translation, kept as its three arguments.
from_scale_rotation_translation(scale, rotation, translation) ==
    [scale |-> scale, rotation_z |-> rotation, translation |-> translation]

cmd_push_constants(draw_instance) ==
    [op        |-> "push_constants",
     transform |-> from_scale_rotation_translation(draw_instance.scale, draw_instance.rotation,
                                                   draw_instance.position),
     color     |-> draw_instance.color]

cmd_draw_indexed(draw_instance) ==
    [op          |-> "draw_indexed",
     index_count |-> object_pool.pool[draw_instance.object_index].index_count,
     first_index |-> object_pool.pool[draw_instance.object_index].index_offset]

\* A variant that walks the pool from its last instance to its first.
draw_from_pool_rev(pool) ==
    [j \in 1..(2 * Len(pool)) |->
        IF j % 2 = 1 THEN cmd_push_constants(pool[Len(pool) + 1 - (j + 1) \div 2])
        ELSE cmd_draw_indexed(pool[Len(pool) + 1 - j \div 2])]

\* The commands draw_from_pool records for the pool, in order.
draw_from_pool(pool) ==
    [j \in 1..(2 * Len(pool)) |->
        IF j % 2 = 1 THEN cmd_push_constants(pool[(j + 1) \div 2])
        ELSE cmd_draw_indexed(pool[j \div 2])]

\* Everything draw_request records into the slot's command buffer.
RecordCommands(slot, framebuffer, vp, sc, pool) ==
    << [op |-> "begin_render_pass", framebuffer |-> framebuffer, render_area |-> sc],
       [op |-> "bind_pipeline"],
       [op |-> "bind_vertex_buffers"],
       [op |-> "bind_index_buffer"],
       [op |-> "set_viewport", viewport |-> vp],
       [op |-> "set_scissor", scissor |-> sc],
       [op |-> "bind_descriptor_sets", set |-> slot] >>
      \o draw_from_pool(pool)
      \o << [op |-> "end_render_pass"] >>

(***************************************************************************)
(* Initial state: the renderer as Renderer::new returns it.                *)
(***************************************************************************)
InitObjects(size, images) ==
    LET o2 == CreateObjects(<<NewSwapchain(size, images)>>, "image_view", size, images)
    IN FrameBuffer_new(o2, LastHandles(o2, images), size)

CoordIdle == [phase |-> "idle"]

RendererInit ==
    /\ window = InitialWindowSize
    /\ caps \in SurfaceCaps
    /\ current_frame = 0
    /\ draw_pool = <<>>
    /\ camera = Camera_new(InitialWindowSize, Vec3(F32Zero, F32Zero, FromInt(2)))
    /\ render_stats = RenderStats_new
    /\ fences_inflight = [i \in Slots |-> TRUE]
    /\ gpu_pending = [i \in Slots |-> 0]
    /\ cmd = [i \in Slots |-> [state |-> "initial", commands |-> <<>>]]
    /\ uniform_buffers = [i \in Slots |-> [written |-> FALSE]]
    /\ swapchain = 1
    /\ objects = InitObjects(InitialWindowSize, SwapchainImages(caps))
    /\ image_views = [i \in 1..SwapchainImages(caps) |-> 1 + i]
    /\ frame_buffers = LastHandles(objects, Len(objects) - (1 + SwapchainImages(caps)))
    /\ viewport = <<FromInt(InitialWindowSize[1]), FromInt(InitialWindowSize[2])>>
    /\ scissor = InitialWindowSize
    /\ pc = "idle"
    /\ image_index = 0
    /\ ret = [op |-> "new", result |-> "Ok"]
    /\ ops = [calls |-> 0, frames |-> 0, app |-> 0, faults |-> 0]

UnitIdle == [phase |-> "idle"]

Init == RendererInit /\ coord = CoordIdle /\ unit = UnitIdle

(***************************************************************************)
(* The application's calls between frames.                                 *)
(***************************************************************************)
\* Renderer::shape: the draw pool after the call.
shape(pool, cam, a) ==
    Append(pool, ShapeInstance(cam.position, a.size_x, a.size_y, a.rotation, a.center,
                               a.color, a.shape, a.anchor))

Shape(a) ==
    /\ pc = "idle"
    /\ ret.result # "Err"
    /\ ops.app < MaxOps
    /\ draw_pool' = shape(draw_pool, camera, a)
    /\ ret' = [op |-> "shape", arg |-> a, result |-> "Ok"]
    /\ ops' = [ops EXCEPT !.app = @ + 1]
    /\ UNCHANGED <<window, caps, current_frame, camera, render_stats, sync_vars,
                   swapchain_vars, pc, image_index, coord, unit>>

Shift(d) ==
    /\ pc = "idle"
    /\ ret.result # "Err"
    /\ ops.app < MaxOps
    /\ camera' = Camera_shift(camera, d[1], d[2])
    /\ ret' = [op |-> "shift", arg |-> d, result |-> "Ok"]
    /\ ops' = [ops EXCEPT !.app = @ + 1]
    /\ UNCHANGED <<window, caps, current_frame, draw_pool, render_stats, sync_vars,
                   swapchain_vars, pc, image_index, coord, unit>>

\* Renderer::text: the draw pool after the call.
text(pool, cam, a) ==
    pool \o TextInstances(cam.position, a.text, a.scale, a.top_left, a.anchor)

Text(a) ==
    /\ pc = "idle"
    /\ ret.result # "Err"
    /\ ops.app < MaxOps
    /\ draw_pool' = text(draw_pool, camera, a)
    /\ ret' = [op |-> "text", arg |-> a, result |-> "Ok"]
    /\ ops' = [ops EXCEPT !.app = @ + 1]
    /\ UNCHANGED <<window, caps, current_frame, camera, render_stats, sync_vars,
                   swapchain_vars, pc, image_index, coord, unit>>

SwapchainState ==
    [swapchain |-> swapchain, image_views |-> image_views, frame_buffers |-> frame_buffers,
     viewport |-> viewport, scissor |-> scissor, objects |-> objects, result |-> "Ok"]

\* The window is resized (or minimized) and the application's handler of the
\* Resized event calls Renderer::recreate_swapchain with the new size;
\* device_wait_idle returns once the GPU has finished every submission.
RecreateSwapchain(new_size, fail) ==
    /\ pc = "idle"
    /\ ret.result # "Err"
    /\ ops.app < MaxOps
    /\ new_size # window
    /\ fail # NoFault => ops.faults < MaxFaults /\ new_size[1] # 0 /\ new_size[2] # 0
    /\ (new_size[1] # 0 /\ new_size[2] # 0) => \A i \in Slots : gpu_pending[i] = 0
    /\ window' = new_size
    /\ LET st == recreate_swapchain(SwapchainState, new_size, caps, fail)
       IN /\ swapchain' = st.swapchain
          /\ image_views' = st.image_views
          /\ frame_buffers' = st.frame_buffers
          /\ viewport' = st.viewport
          /\ scissor' = st.scissor
          /\ objects' = st.objects
          /\ ret' = [op |-> "recreate_swapchain", arg |-> new_size, result |-> st.result]
    /\ ops' = [ops EXCEPT !.app = @ + 1,
                          !.faults = IF fail = NoFault THEN @ ELSE @ + 1]
    /\ UNCHANGED <<caps, current_frame, draw_pool, camera, render_stats, sync_vars,
                   pc, image_index, coord, unit>>

(***************************************************************************)
(* draw_request, one action per blocking or failing step.                  *)
(***************************************************************************)
\* A variant of the guard that looks at the height only.
MinimizedHeight(size) == size[2] = 0

\* The guard of draw_request's early return.
Minimized(size) == size[2] = 0 \/ size[1] = 0

\* A variant that returns whether or not the fence is signaled.
wait_for_fences_nowait(fences, slot) == TRUE

\* A variant that waits for the fence of the other frame slot.
wait_for_fences_other(fences, slot) == fences[(slot + 1) % MAX_FRAMES_INFLIGHT]

\* vkWaitForFences on one fence with an unbounded timeout returns once the
\* fence is signaled.
wait_for_fences(fences, slot) == fences[slot]

\* A variant that keeps the frame slot.
next_frame_same(frame) == frame % MAX_FRAMES_INFLIGHT

\* The value draw_request stores in current_frame after presenting.
next_frame(frame) == (frame + 1) % MAX_FRAMES_INFLIGHT

\* Whether a second has passed since fps_instant: the application renders
\* FramesPerSecond frames a second.
SecondElapsed(stats) == stats.frame_counter + 1 >= FramesPerSecond

\* The application has left its loop with the error of recreate_swapchain.
Exited == ret.op = "recreate_swapchain" /\ ret.result = "Err"

\* A variant that stays at the failed step to try it again.
ReturnErrRetry ==
    /\ pc' = pc
    /\ image_index' = image_index
    /\ ret' = ret
    /\ ops' = [ops EXCEPT !.faults = @ + 1]

\* The error return of draw_request: the `?` operator leaves the function.
ReturnErr ==
    /\ pc' = "idle"
    /\ image_index' = 0
    /\ ret' = [ret EXCEPT !.result = "Err"]
    /\ ops' = [ops EXCEPT !.faults = @ + 1]

DrawRequestMinimized ==
    /\ pc = "idle"
    /\ ~Exited
    /\ ops.calls < MaxCalls
    /\ Minimized(window)
    /\ ret' = [op |-> "draw_request", arg |-> window, result |-> "Ok"]
    /\ ops' = [ops EXCEPT !.calls = @ + 1]
    /\ UNCHANGED <<window, caps, current_frame, draw_pool, camera, render_stats, sync_vars,
                   swapchain_vars, pc, image_index, coord, unit>>

\* The statistics text is queued, then the frame's fence is waited for.
DrawRequestBegin ==
    /\ pc = "idle"
    /\ ~Exited
    /\ ops.calls < MaxCalls
    /\ ~Minimized(window)
    /\ draw_pool' = draw_pool \o TextInstances(camera.position, as_text(render_stats), F32One,
                                               WorldPos2D_convert(window, FromInt(5), FromInt(5)),
                                               "Locked")
    /\ pc' = "wait_for_fences"
    /\ ret' = [op |-> "draw_request", arg |-> window, result |-> "running"]
    /\ ops' = [ops EXCEPT !.calls = @ + 1]
    /\ UNCHANGED <<window, caps, current_frame, camera, render_stats, sync_vars,
                   swapchain_vars, image_index, coord, unit>>

\* wait_for_fences returns, reset_fences unsignals the slot's fence.
WaitForFences ==
    /\ pc = "wait_for_fences"
    /\ wait_for_fences(fences_inflight, current_frame)
    /\ fences_inflight' = [fences_inflight EXCEPT ![current_frame] = FALSE]
    /\ pc' = "acquire_next_image"
    /\ UNCHANGED <<window, caps, current_frame, draw_pool, camera, render_stats, gpu_pending,
                   cmd, uniform_buffers, swapchain_vars, image_index, ret, ops, coord, unit>>

\* acquire_next_image returns an image; the slot's command buffer is reset
\* and recorded, the projection updated and copied to the slot's uniform
\* buffer.
AcquireNextImage ==
    /\ pc = "acquire_next_image"
    /\ \E idx \in 0..(objects[swapchain].images - 1) :
          /\ image_index' = idx
          /\ cmd' = [cmd EXCEPT ![current_frame] =
                       [state    |-> "executable",
                        commands |-> RecordCommands(current_frame, frame_buffers[idx + 1],
                                                    viewport, scissor, draw_pool)]]
    /\ \E t \in ElapsedMicros :
          render_stats' = [render_stats EXCEPT !.last_draw_pool_creation_time = t]
    /\ camera' = Camera_update_projection(camera, window)
    /\ uniform_buffers' = [uniform_buffers EXCEPT ![current_frame] =
                             [written |-> TRUE, view |-> camera'.view,
                              projection |-> camera'.projection]]
    /\ pc' = "queue_submit"
    /\ UNCHANGED <<window, caps, current_frame, draw_pool, fences_inflight, gpu_pending,
                   swapchain_vars, ret, ops, coord, unit>>

\* acquire_next_image returns an error (out of date, surface lost, ...).
AcquireNextImageErr ==
    /\ pc = "acquire_next_image"
    /\ ops.faults < MaxFaults
    /\ ReturnErr
    /\ UNCHANGED <<window, caps, current_frame, draw_pool, camera, render_stats, sync_vars,
                   swapchain_vars, coord, unit>>

QueueSubmit ==
    /\ pc = "queue_submit"
    /\ gpu_pending' = [gpu_pending EXCEPT ![current_frame] = @ + 1]
    /\ cmd' = [cmd EXCEPT ![current_frame].state = "pending"]
    /\ pc' = "queue_present"
    /\ UNCHANGED <<window, caps, current_frame, draw_pool, camera, render_stats,
                   fences_inflight, uniform_buffers, swapchain_vars, image_index, ret, ops,
                   coord, unit>>

QueueSubmitErr ==
    /\ pc = "queue_submit"
    /\ ops.faults < MaxFaults
    /\ ReturnErr
    /\ UNCHANGED <<window, caps, current_frame, draw_pool, camera, render_stats, sync_vars,
                   swapchain_vars, coord, unit>>

\* queue_present succeeds; the frame slot advances, the statistics are
\* updated and the pool is cleared.
QueuePresent ==
    /\ pc = "queue_present"
    /\ current_frame' = next_frame(current_frame)
    /\ \E t \in ElapsedMicros :
          render_stats' = update_render_stats(
                              [render_stats EXCEPT !.last_draw_request_time = t],
                              Len(draw_pool), SecondElapsed(render_stats))
    /\ draw_pool' = <<>>
    /\ pc' = "idle"
    /\ image_index' = 0
    /\ ret' = [ret EXCEPT !.result = "Ok"]
    /\ ops' = [ops EXCEPT !.frames = @ + 1]
    /\ UNCHANGED <<window, caps, camera, sync_vars, swapchain_vars, coord, unit>>

QueuePresentErr ==
    /\ pc = "queue_present"
    /\ ops.faults < MaxFaults
    /\ ReturnErr
    /\ UNCHANGED <<window, caps, current_frame, draw_pool, camera, render_stats, sync_vars,
                   swapchain_vars, coord, unit>>

\* The GPU finishes the slot's submission and signals its fence.
GpuComplete(i) ==
    /\ gpu_pending[i] > 0
    /\ gpu_pending' = [gpu_pending EXCEPT ![i] = @ - 1]
    /\ fences_inflight' = [fences_inflight EXCEPT ![i] = TRUE]
    /\ cmd' = [cmd EXCEPT ![i].state = IF gpu_pending[i] = 1 THEN "executable" ELSE @]
    /\ UNCHANGED <<window, caps, current_frame, draw_pool, camera, render_stats,
                   uniform_buffers, swapchain_vars, pc, image_index, ret, ops, coord, unit>>

\* The handles Drop for Renderer passes to destroy_framebuffer,
\* destroy_image_view and destroy_swapchain, in the order of its calls.
DropHandles == frame_buffers \o image_views \o <<swapchain>>

\* Drop for Renderer, as far as the swapchain's objects go; twice keeps the
\* handles whose object was destroyed before.
Drop ==
    /\ pc = "idle"
    /\ pc' = "dropped"
    /\ objects' = DestroyObjects(objects, Range(DropHandles))
    /\ ret' = [op |-> "drop", result |-> "Ok", destroyed |-> DropHandles,
               twice |-> {h \in Range(DropHandles) : ~objects[h].alive}]
    /\ UNCHANGED <<window, caps, current_frame, draw_pool, camera, render_stats, sync_vars,
                   swapchain, image_views, frame_buffers, viewport, scissor, image_index,
                   ops, coord, unit>>

DrawRequestStep ==
    \/ DrawRequestMinimized
    \/ DrawRequestBegin
    \/ WaitForFences
    \/ AcquireNextImage
    \/ AcquireNextImageErr
    \/ QueueSubmit
    \/ QueueSubmitErr
    \/ QueuePresent
    \/ QueuePresentErr

Next ==
    \/ \E a \in ShapeArgs : Shape(a)
    \/ \E d \in ShiftArgs : Shift(d)
    \/ \E size \in WindowSizes :
          \E fail \in {NoFault} \cup RecreateFaults(SwapchainImages(caps)) :
             RecreateSwapchain(size, fail)
    \/ DrawRequestStep
    \/ \E i \in Slots : GpuComplete(i)
    \/ Drop

Spec == Init /\ [][Next]_vars


(***************************************************************************)
(* The coordinate conversions on their own: a screen point is converted to *)
(* world space and back, by the functions of coord_sys.rs and by the       *)
(* renderer's own pair.                                                    *)
(***************************************************************************)
\* Window sizes the conversions are run on.
CoordSizes == {<<800, 600>>, <<600, 800>>, <<1280, 720>>, <<0, 600>>, <<800, 0>>}

\* The pixels of a window the conversions are run on: its top row, its left
\* column, and its corners, edge midpoints and centre.
CoordPoints(size) ==
    {<<x, 0>> : x \in 0..size[1]}
      \cup {<<0, y>> : y \in 0..size[2]}
      \cup {<<x, y>> : x \in {0, size[1] \div 2, size[1]}, y \in {0, size[2] \div 2, size[2]}}

renderer_vars == <<window, caps, current_frame, draw_pool, camera, render_stats, sync_vars,
                   swapchain_vars, pc, image_index, ret, ops>>

\* <<width, height>> the camera caches for a window of the given size
\* (Camera::new, Camera::update_projection).
CameraSize(size) == <<FromInt(size[1]), FromInt(size[2])>>

\* Where the camera of a window of the given size, at the origin, draws a
\* world position: the pixel of its projection.
DrawnAt(size, position) ==
    viewport_pixel(CameraSize(size),
                   project_point(orthographic(CameraSize(size)[1], CameraSize(size)[2]),
                                 position))

\* WorldPos2D::from_xy and Renderer::screen_to_world of a pixel, and where
\* the camera draws the world position.
ToWorld(size, p) ==
    /\ coord.phase = "idle"
    /\ coord' = [phase   |-> "world",
                 size    |-> size,
                 pixel   |-> p,
                 world   |-> WorldPos2D_convert(size, FromInt(p[1]), FromInt(p[2])),
                 drawn   |-> DrawnAt(size, WorldPos2D_convert(size, FromInt(p[1]),
                                                              FromInt(p[2]))),
                 r_world |-> screen_to_world(CameraSize(size), <<FromInt(p[1]), FromInt(p[2])>>)]
    /\ UNCHANGED <<renderer_vars, unit>>

\* ScreenPos2D::from_world_pos and Renderer::world_to_screen of the results.
ToScreen ==
    /\ coord.phase = "world"
    /\ coord' = [phase    |-> "screen",
                 size     |-> coord.size,
                 pixel    |-> coord.pixel,
                 world    |-> coord.world,
                 r_world  |-> coord.r_world,
                 screen   |-> ScreenPos2D_convert(coord.size, coord.world[1], coord.world[2]),
                 r_screen |-> world_to_screen(CameraSize(coord.size), coord.r_world)]
    /\ UNCHANGED <<renderer_vars, unit>>

CoordDone ==
    /\ coord.phase = "screen"
    /\ coord' = CoordIdle
    /\ UNCHANGED <<renderer_vars, unit>>

NextCoord ==
    \/ \E size \in CoordSizes : \E p \in CoordPoints(size) : ToWorld(size, p)
    \/ ToScreen
    \/ CoordDone

SpecCoord == Init /\ [][NextCoord]_vars

(***************************************************************************)
(* The mesh loader (resources.rs, load_obj_files).  A file is a sequence   *)
(* of lines: [kind "o", name] starts an object, [kind "v", count] stands   *)
(* for a run of count vertex lines, [kind "f", values] is a face with the  *)
(* values of its line.  The vertices are kept as their number.             *)
(***************************************************************************)
\* Files loaded in one call.
MaxFiles == 2
\* The values of a u16.
U16 == Pow2(16)

VertexCounts == {3, 4, U16 - 1, U16}
FaceLists ==
    {<<>>, << <<1, 2, 3>> >>, << <<1, 2, 3>>, <<2, 3, 4>> >>, << <<0, 1, 2>> >>,
     << <<1, 2, U16 + 1>> >>, << <<1, 2, 3, 4>> >>, << <<1, 2>> >>}

\* The lines of a file with one object.
ObjFile(count, faces) ==
    << [kind |-> "o", name |-> "object"], [kind |-> "v", count |-> count] >>
      \o [i \in 1..Len(faces) |-> [kind |-> "f", values |-> faces[i]]]

\* Files with one object, and a file with no object line, a file with two
\* objects and a file whose object has no name.
ObjFiles ==
    {ObjFile(count, faces) : count \in VertexCounts, faces \in FaceLists}
      \cup {Tail(ObjFile(3, << <<1, 2, 3>> >>)),
            ObjFile(3, << <<1, 2, 3>> >>) \o ObjFile(4, << <<1, 2, 3>>, <<2, 3, 4>> >>),
            << [kind |-> "o", name |-> ""] >> \o Tail(ObjFile(3, << <<1, 2, 3>> >>))}

RECURSIVE ObjFileLists(_)
\* The lists of n files and fewer, none empty.
ObjFileLists(n) ==
    IF n = 1 THEN {<<file>> : file \in ObjFiles}
    ELSE ObjFileLists(n - 1)
           \cup {Append(l, file) : l \in {u \in ObjFileLists(n - 1) : Len(u) = n - 1},
                                   file \in ObjFiles}

\* The loader's locals before the first file.
LoaderInit ==
    [vertices |-> 0, indices |-> <<>>, pool |-> <<>>, object_index_offset |-> 0,
     object_data |-> [name |-> "", index_count |-> 0, index_offset |-> 0],
     result |-> "Ok"]

\* One value of a face line: parsed as u16, made 0-based and rebased.  With
\* overflow checks (debug builds) an overflowing subtraction or addition
\* panics, without them (release builds) it wraps.
LoadIndex(st, value, overflow_checks) ==
    IF st.result # "Ok" THEN st
    ELSE IF value \notin 0..(U16 - 1) THEN [st EXCEPT !.result = "Err"]
    ELSE IF value = 0 /\ overflow_checks THEN [st EXCEPT !.result = "panic"]
    ELSE LET index == (value - 1) % U16
             base  == st.object_index_offset % U16
         IN IF base + index >= U16 /\ overflow_checks THEN [st EXCEPT !.result = "panic"]
            ELSE [st EXCEPT !.indices = Append(@, (base + index) % U16)]

RECURSIVE LoadIndexes(_, _, _, _)
\* The values of a face line from value i on: the loop stops after the
\* third value.
LoadIndexes(st, values, i, overflow_checks) ==
    IF i > Len(values) \/ i > 3 THEN st
    ELSE LoadIndexes(LoadIndex(st, values[i], overflow_checks), values, i + 1,
                     overflow_checks)

\* One line of a file.
LoadLine(st, line, overflow_checks) ==
    IF st.result # "Ok" THEN st
    ELSE CASE line.kind = "o" ->
                IF st.object_data.name = ""
                THEN [st EXCEPT !.object_data.name = line.name]
                ELSE [st EXCEPT !.pool = Append(@, st.object_data),
                                !.object_data =
                                    [name         |-> line.name,
                                     index_offset |-> st.object_data.index_offset
                                                        + st.object_data.index_count,
                                     index_count  |-> 0]]
           [] line.kind = "v" -> [st EXCEPT !.vertices = @ + line.count]
           [] line.kind = "f" ->
                LET st3 == LoadIndexes(st, line.values, 1, overflow_checks)
                IN IF st3.result # "Ok" THEN st3
                   ELSE [st3 EXCEPT !.object_data.index_count = @ + 3]

RECURSIVE LoadLines(_, _, _, _)
\* The lines of a file from line i on.
LoadLines(st, lines, i, overflow_checks) ==
    IF i > Len(lines) THEN st
    ELSE LoadLines(LoadLine(st, lines[i], overflow_checks), lines, i + 1, overflow_checks)

\* load_obj_files is called with a list of files, in a debug or a release
\* build.
LoadStart(files, overflow_checks) ==
    /\ unit = UnitIdle
    /\ unit' = [phase |-> "load", files |-> files, overflow_checks |-> overflow_checks,
                next |-> 1, st |-> LoaderInit]
    /\ UNCHANGED <<renderer_vars, coord>>

\* The next file is read to its end; the vertices loaded so far become the
\* offset of the file after it.
LoadFile ==
    /\ unit.phase = "load"
    /\ unit.st.result = "Ok"
    /\ unit.next <= Len(unit.files)
    /\ LET st == LoadLines(unit.st, unit.files[unit.next], 1, unit.overflow_checks)
       IN unit' = [unit EXCEPT !.next = @ + 1,
                               !.st = IF st.result = "Ok"
                                      THEN [st EXCEPT !.object_index_offset = st.vertices]
                                      ELSE st]
    /\ UNCHANGED <<renderer_vars, coord>>

\* The last object is saved and the pool returned, or the error is.
LoadReturn ==
    /\ unit.phase = "load"
    /\ unit.st.result # "Ok" \/ unit.next > Len(unit.files)
    /\ unit' = [unit EXCEPT !.phase = "loaded",
                            !.st = IF unit.st.result = "Ok"
                                   THEN [unit.st EXCEPT !.pool = Append(@, unit.st.object_data)]
                                   ELSE unit.st]
    /\ UNCHANGED <<renderer_vars, coord>>

NextLoad ==
    \/ /\ unit = UnitIdle
       /\ \E files \in ObjFileLists(MaxFiles) : \E overflow_checks \in BOOLEAN :
             LoadStart(files, overflow_checks)
    \/ LoadFile
    \/ LoadReturn

SpecLoad == Init /\ [][NextLoad]_vars

(***************************************************************************)
(* Device selection (Device::new).  A physical device is a record of what  *)
(* the queries of the loop return for it: whether it is a discrete GPU,    *)
(* has the swapchain extension, offers B8G8R8A8_SRGB / SRGB_NONLINEAR and  *)
(* MAILBOX, and its queue families, each [graphics, present]: whether it   *)
(* has the GRAPHICS flag and whether it can present to the surface.  An    *)
(* Option<u32> is the number, or None, which is no u32.                    *)
(***************************************************************************)
\* Physical devices the instance enumerates.
MaxDevices == 2
\* Queue families of a physical device.
MaxFamilies == 2

None == -1

QueueFamilies == [graphics : BOOLEAN, present : BOOLEAN]

RECURSIVE FamilyLists(_)
\* The lists of n queue families and fewer.
FamilyLists(n) ==
    IF n = 0 THEN {<<>>}
    ELSE FamilyLists(n - 1)
           \cup {Append(l, qf) : l \in {u \in FamilyLists(n - 1) : Len(u) = n - 1},
                                 qf \in QueueFamilies}

\* Devices that meet the four criteria before the queue families, or all
\* but one of them.
PhysicalDevices ==
    {d \in [discrete : BOOLEAN, extension : BOOLEAN, format : BOOLEAN, mode : BOOLEAN,
            families : FamilyLists(MaxFamilies)] :
        Cardinality({c \in {"discrete", "extension", "format", "mode"} : ~d[c]}) <= 1}

RECURSIVE DeviceLists(_)
\* The lists of n devices and fewer.
DeviceLists(n) ==
    IF n = 0 THEN {<<>>}
    ELSE DeviceLists(n - 1)
           \cup {Append(l, d) : l \in {u \in DeviceLists(n - 1) : Len(u) = n - 1},
                                d \in PhysicalDevices}

\* The API calls of Device::new that may fail ("none": no call fails).
DeviceFaults == {"none", "enumerate_physical_devices", "create_device"}

\* The closure passed to any(): queue family index of the device with the
\* indices q = [graphics, present] found so far.
QueueFamily(q, qf, index) ==
    LET graphics == IF q.graphics = None /\ qf.graphics THEN index ELSE q.graphics
    IN [graphics |-> graphics,
        present  |-> IF q.present = None /\ qf.present /\ graphics # None /\ graphics # index
                     THEN index ELSE q.present]

RECURSIVE QueueFamiliesAny(_, _, _)
\* any() over the families from the i-th on: it stops at the first family
\* after which both indices are found.
QueueFamiliesAny(q, families, i) ==
    IF i > Len(families) THEN q
    ELSE LET next == QueueFamily(q, families[i], i - 1)
         IN IF next.graphics # None /\ next.present # None THEN next
            ELSE QueueFamiliesAny(next, families, i + 1)

\* A variant that keeps the indices found on the devices before.
QueueIndicesKept(q) == q

\* The indices at the start of a device's queue families.
QueueIndicesReset(q) == [graphics |-> None, present |-> None]

\* One iteration of the loop over the devices: sel is [physical_device,
\* graphics_queue_index, present_queue_index], pd the device's number.
ExamineDevice(sel, d, pd) ==
    IF ~d.discrete \/ ~d.extension \/ ~d.format \/ ~d.mode THEN sel
    ELSE LET q == QueueFamiliesAny(QueueIndicesReset([graphics |-> sel.graphics_queue_index,
                                                     present  |-> sel.present_queue_index]),
                                   d.families, 1)
         IN [physical_device      |-> IF q.graphics # None /\ q.present # None
                                      THEN pd ELSE sel.physical_device,
             graphics_queue_index |-> q.graphics,
             present_queue_index  |-> q.present]

\* Device::new is called; enumerate_physical_devices returns the devices or
\* fails.
DeviceNew(devices, fault) ==
    /\ unit = UnitIdle
    /\ unit' = [phase   |-> IF fault = "enumerate_physical_devices" THEN "device" ELSE "devices",
                devices |-> devices,
                fault   |-> fault,
                next    |-> 1,
                sel     |-> [physical_device |-> None, graphics_queue_index |-> None,
                             present_queue_index |-> None],
                result  |-> IF fault = "enumerate_physical_devices" THEN "Err" ELSE "running"]
    /\ UNCHANGED <<renderer_vars, coord>>

\* The loop examines the next device; it ends at the first device taken.
DeviceLoop ==
    /\ unit.phase = "devices"
    /\ unit.result = "running"
    /\ unit.sel.physical_device = None
    /\ unit.next <= Len(unit.devices)
    /\ unit' = [unit EXCEPT !.sel = ExamineDevice(unit.sel, unit.devices[unit.next], unit.next),
                            !.next = @ + 1]
    /\ UNCHANGED <<renderer_vars, coord>>

\* After the loop: no device gives the error, the indices are unwrapped
\* and the logical device is created.
DeviceReturn ==
    /\ unit.phase = "devices"
    /\ unit.result = "running"
    /\ unit.sel.physical_device # None \/ unit.next > Len(unit.devices)
    /\ unit' = [unit EXCEPT
                  !.phase = "device",
                  !.result = IF unit.sel.physical_device = None THEN "Err"
                             ELSE IF unit.sel.graphics_queue_index = None
                                     \/ unit.sel.present_queue_index = None THEN "panic"
                             ELSE IF unit.fault = "create_device" THEN "Err"
                             ELSE "Ok"]
    /\ UNCHANGED <<renderer_vars, coord>>

NextDevice ==
    \/ /\ unit = UnitIdle
       /\ \E devices \in DeviceLists(MaxDevices) : \E fault \in DeviceFaults :
             DeviceNew(devices, fault)
    \/ DeviceLoop
    \/ DeviceReturn

SpecDevice == Init /\ [][NextDevice]_vars

(***************************************************************************)
(* Renderer::text on its own: the application queues texts and shapes and  *)
(* moves the camera.                                                       *)
(***************************************************************************)
NextText ==
    \/ \E a \in TextArgs : Text(a)
    \/ \E a \in ShapeArgs : Shape(a)
    \/ \E d \in ShiftArgs : Shift(d)

SpecText == Init /\ [][NextText]_vars

(***************************************************************************)
(* One iteration of the loop of Renderer::text for every byte a string     *)
(* can hold.  The index expression CHAR_OBJECT_POOL[byte as usize] panics  *)
(* when the byte is not below the length of the table.  Beside it a shape  *)
(* of every type is queued by Renderer::shape or Renderer::add_shape, and  *)
(* draw_from_pool looks the queued instances up in the mesh table.         *)
(***************************************************************************)
\* The bytes of the UTF-8 encodings: ASCII, continuation bytes and the
\* lead bytes 0xC2..0xF4.  A &str holds no other byte.
StrBytes == (0..191) \cup (194..244)

\* The texts the loop has gone through before the byte.
GlyphPrefixes == {<<>>, <<65>>, <<65, 10>>}

\* The loop's constants for scale 2 and an unlocked anchor at (-1, 0.5).
GlyphText ==
    LET scale == FromInt(2)
        pad_x == FMul(scale, F32_0_03)
        pad_y == FMul(scale, F32_0_05)
    IN [scale |-> scale, pad_x |-> pad_x, pad_y |-> pad_y,
        anchor |-> TextAnchor(<<F32Zero, F32Zero, F32Zero>>, pad_x, pad_y,
                              <<FNeg(F32One), F32Half>>, "Unlocked")]

\* The iteration for one byte with its bounds check.
text_byte(byte, t, st) ==
    IF byte + 1 \in DOMAIN CHAR_OBJECT_POOL
    THEN [result |-> "Ok", st |-> TextStep(byte, t, st)]
    ELSE [result |-> "panic", st |-> st]

\* Arguments of Renderer::shape with every shape type under both anchors.
AllShapeArgs ==
    {[size_x |-> FromInt(1), size_y |-> FromInt(2), rotation |-> F32Zero,
      center |-> <<F32Half, F32Half>>, color |-> "RED", shape |-> s, anchor |-> an] :
        s \in ShapeTypes, an \in {"Locked", "Unlocked"}}

\* Renderer::add_shape: the draw parameters of the shape go to
\* Renderer::shape with the anchor.
add_shape(pool, cam, draw_params, anchor) ==
    shape(pool, cam, [draw_params EXCEPT !.anchor = anchor])

\* The indexing self.object_pool.pool[object_index] of draw_from_pool for
\* every instance of the pool: out of the table it panics.
draw_from_pool_checked(pool) ==
    IF \A i \in 1..Len(pool) : pool[i].object_index \in DOMAIN object_pool.pool
    THEN [result |-> "Ok", commands |-> draw_from_pool(pool)]
    ELSE [result |-> "panic", commands |-> <<>>]

GlyphNew(prefix) ==
    /\ unit = UnitIdle
    /\ unit' = [phase |-> "glyph", prefix |-> prefix, byte |-> -1, result |-> "Ok",
                shape |-> "none", via |-> "none",
                drawn |-> [result |-> "none", commands |-> <<>>],
                before |-> [cursor |-> GlyphText.anchor, out |-> <<>>],
                st |-> TextLoop(prefix, 1, Len(prefix), GlyphText,
                                [cursor |-> GlyphText.anchor, out |-> <<>>])]
    /\ UNCHANGED <<renderer_vars, coord>>

GlyphByte(byte) ==
    /\ unit.phase = "glyph"
    /\ unit.byte = -1
    /\ unit.shape = "none"
    /\ LET r == text_byte(byte, GlyphText, unit.st)
       IN unit' = [unit EXCEPT !.byte = byte, !.before = unit.st, !.st = r.st,
                               !.result = r.result]
    /\ UNCHANGED <<renderer_vars, coord>>

\* A shape is queued instead of a byte, by shape or by add_shape.
GlyphShape(a, via) ==
    /\ unit.phase = "glyph"
    /\ unit.byte = -1
    /\ unit.shape = "none"
    /\ LET cam == [position |-> <<F32Zero, F32Zero, F32Zero>>]
       IN unit' = [unit EXCEPT
                     !.shape = a.shape, !.via = via, !.before = unit.st,
                     !.st.out = IF via = "shape" THEN shape(@, cam, a)
                                ELSE add_shape(@, cam, a, a.anchor)]
    /\ UNCHANGED <<renderer_vars, coord>>

\* draw_from_pool goes through the instances queued.
GlyphDraw ==
    /\ unit.phase = "glyph"
    /\ unit.byte # -1 \/ unit.shape # "none"
    /\ unit.result = "Ok"
    /\ unit.drawn.result = "none"
    /\ unit' = [unit EXCEPT !.drawn = draw_from_pool_checked(unit.st.out)]
    /\ UNCHANGED <<renderer_vars, coord>>

NextGlyph ==
    \/ \E prefix \in GlyphPrefixes : GlyphNew(prefix)
    \/ \E byte \in StrBytes : GlyphByte(byte)
    \/ \E a \in AllShapeArgs : \E via \in {"shape", "add_shape"} : GlyphShape(a, via)
    \/ GlyphDraw

SpecGlyph == Init /\ [][NextGlyph]_vars



(***************************************************************************)
(* The render loops of the applications: run of src/app/mod.rs (old winit  *)
(* loop with a ControlFlow) and App of examples/bezier_app (window_event). *)
(* The renderer's calls are taken by their results.                        *)
(***************************************************************************)
\* Events one run of an application handles.
MaxEvents == 5

Apps == {"app", "bezier_app"}
Results == {"Ok", "Err"}

\* EventResult::check_result for ControlFlow on the loop's state u: an Err
\* sets the control flow to exit and is the value assigned to res.
check_result(u, result) ==
    IF result = "Err" THEN [u EXCEPT !.exit = TRUE, !.res = "Err"]
    ELSE [u EXCEPT !.res = "Ok"]

\* The loop's state after a call of the renderer returned result: last is
\* the result, errs counts the Err results, late the calls made after one.
Called(u, result) ==
    [u EXCEPT !.last = result,
              !.errs = IF result = "Err" THEN @ + 1 ELSE @,
              !.late = IF u.errs > 0 THEN @ + 1 ELSE @,
              !.events = @ + 1]

\* run up to the event loop: src/app/mod.rs creates the renderer first and
\* returns its error, bezier_app creates it on the first redraw.
AppStart(app, new) ==
    /\ unit = UnitIdle
    /\ unit' = IF app = "app" /\ new = "Err"
               THEN [phase |-> "app_returned", app |-> app, run |-> "Err", errs |-> 0,
                     late |-> 0, last |-> "none"]
               ELSE [phase |-> "app_loop", app |-> app, renderer |-> app = "app",
                     exit |-> FALSE, closed |-> FALSE, res |-> "Ok", error |-> FALSE,
                     last |-> "none",
                     errs |-> 0, late |-> 0, events |-> 0]
    /\ UNCHANGED <<renderer_vars, coord>>

AppLoop(app) ==
    /\ unit.phase = "app_loop"
    /\ unit.app = app
    /\ ~unit.exit
    /\ unit.events < MaxEvents

\* Event::MainEventsCleared of src/app/mod.rs.
MainEventsCleared(result) ==
    /\ AppLoop("app")
    /\ unit' = check_result(Called(unit, result), result)
    /\ UNCHANGED <<renderer_vars, coord>>

\* WindowEvent::Resized of src/app/mod.rs; same tells whether the new size
\* is the window's inner size.
AppResized(same, result) ==
    /\ AppLoop("app")
    /\ unit' = IF same THEN check_result(Called(unit, result), result)
               ELSE [unit EXCEPT !.events = @ + 1]
    /\ UNCHANGED <<renderer_vars, coord>>

\* WindowEvent::CloseRequested of either application.
CloseRequested ==
    /\ \E app \in Apps : AppLoop(app)
    /\ unit' = [unit EXCEPT !.exit = TRUE, !.closed = TRUE, !.events = @ + 1]
    /\ UNCHANGED <<renderer_vars, coord>>

\* App::window_event of bezier_app leaves the loop when an error is stored.
BezierError ==
    /\ AppLoop("bezier_app")
    /\ unit.error
    /\ unit' = [unit EXCEPT !.exit = TRUE, !.events = @ + 1]
    /\ UNCHANGED <<renderer_vars, coord>>

\* WindowEvent::RedrawRequested of bezier_app: the result of draw_request is
\* dropped; the first request creates the renderer and stores its error.
RedrawRequested(result) ==
    /\ AppLoop("bezier_app")
    /\ ~unit.error
    /\ unit' = IF unit.renderer THEN Called(unit, result)
               ELSE [unit EXCEPT !.renderer = result = "Ok", !.error = result = "Err",
                                 !.events = @ + 1]
    /\ UNCHANGED <<renderer_vars, coord>>

\* WindowEvent::Resized of bezier_app: the result of recreate_swapchain is
\* dropped.
BezierResized(result) ==
    /\ AppLoop("bezier_app")
    /\ ~unit.error
    /\ unit' = IF unit.renderer THEN Called(unit, result)
               ELSE [unit EXCEPT !.events = @ + 1]
    /\ UNCHANGED <<renderer_vars, coord>>

\* The end of run.  EventLoop::run of src/app/mod.rs does not return: the
\* process exits from inside it, and res is never read.  run of bezier_app
\* returns the error of wait_device_idle, else the stored error, else Ok.
AppReturn(idle) ==
    /\ unit.phase = "app_loop"
    /\ unit.exit
    /\ unit' = [phase |-> "app_returned", app |-> unit.app, errs |-> unit.errs,
                late |-> unit.late, last |-> unit.last,
                run |-> IF unit.app = "app" THEN "exit"
                        ELSE IF (unit.renderer /\ idle = "Err") \/ unit.error THEN "Err"
                        ELSE "Ok"]
    /\ UNCHANGED <<renderer_vars, coord>>

NextApp ==
    \/ \E app \in Apps, new \in Results : AppStart(app, new)
    \/ \E result \in Results : MainEventsCleared(result)
    \/ \E same \in BOOLEAN, result \in Results : AppResized(same, result)
    \/ CloseRequested
    \/ BezierError
    \/ \E result \in Results : RedrawRequested(result)
    \/ \E result \in Results : BezierResized(result)
    \/ \E idle \in Results : AppReturn(idle)

SpecApp == Init /\ [][NextApp]_vars


(***************************************************************************)
(* Scene::zoom (vulkan/mod.rs) on its own.                                 *)
(***************************************************************************)
\* Calls of Scene::zoom in one run.
MaxZooms == 3

F32_0_1 == FDiv(FromInt(1), FromInt(10))

\* The deltas zoom is called with: the lines of a mouse wheel times 0.1, and
\* values of f32 no wheel reports.
ZoomDeltas ==
    {FMul(FromInt(dir), F32_0_1) : dir \in {-30, -3, -1, 1, 3, 30}}
      \cup {F32Zero, FInf(0), FInf(1), FNaN}

\* f32::clamp: min if the value is less than min, max if it is greater than
\* max, else the value, which a NaN is.
f32_clamp(x, min, max) ==
    LET low == IF FLt(x, min) THEN min ELSE x
    IN IF FGt(low, max) THEN max ELSE low

\* The camera_zoom Scene::zoom stores.
zoom(camera_zoom, delta) == f32_clamp(FAdd(camera_zoom, delta), F32_0_1, FromInt(2))

\* Scene::new.
SceneNew ==
    /\ unit = UnitIdle
    /\ unit' = [phase |-> "scene", camera_zoom |-> F32One, calls |-> 0, delta |-> F32Zero]
    /\ UNCHANGED <<renderer_vars, coord>>

Zoom(delta) ==
    /\ unit.phase = "scene"
    /\ unit.calls < MaxZooms
    /\ unit' = [phase |-> "scene", camera_zoom |-> zoom(unit.camera_zoom, delta),
                calls |-> unit.calls + 1, delta |-> delta]
    /\ UNCHANGED <<renderer_vars, coord>>

NextZoom ==
    \/ SceneNew
    \/ \E delta \in ZoomDeltas : Zoom(delta)

SpecZoom == Init /\ [][NextZoom]_vars


(***************************************************************************)
(* draw_request with its synchronisation objects.  The renderer's calls    *)
(* run on the CPU; the graphics queue executes the submissions and the     *)
(* present queue the presents, each in the order of its queue, on their    *)
(* own.  A fence is signaled or not; a semaphore is kept as the number of  *)
(* signals no wait has consumed.  Frames are numbered by their call.       *)
(***************************************************************************)
\* Calls of draw_request in one run.
MaxFrames == 3
\* Signals a semaphore is seen to hold.
MaxSignals == 2

\* A fence created with default flags is unsignaled.
fence_create_default == FALSE

\* Renderer::new creates every in-flight fence with FenceCreateFlags::SIGNALED
\* and every semaphore unsignaled.
fence_create_signaled == TRUE

FrameInit ==
    [phase |-> "frame", pc |-> "idle", current_frame |-> 0, draw_pool |-> 0,
     fences_inflight    |-> [i \in Slots |-> fence_create_signaled],
     semaphores_acquire |-> [i \in Slots |-> 0],
     semaphores_release |-> [i \in Slots |-> 0],
     acquiring |-> {}, graphics_queue |-> <<>>, present_queue |-> <<>>,
     frame |-> 0, log |-> <<>>, ret |-> "none", faults |-> 0, err |-> "none",
     acquired |-> {}, output |-> {}, rendered |-> {}, presented |-> {}]

\* The signals a semaphore holds after a signal operation: signaling a
\* semaphore that is still signaled is invalid usage, after which the
\* signal is lost or kept beside the first.
Signaled(count) ==
    IF count = 0 THEN {1} ELSE {count, IF count < MaxSignals THEN count + 1 ELSE count}

\* The slot whose acquire semaphore a submission of the given slot waits for.
wait_semaphore(slot) == slot

\* The slot whose release semaphore a present of the given slot waits for.
present_wait_semaphore(slot) == slot

\* One call of the API by draw_request: the call is logged and control
\* moves on.
FrameCall(u, name, next) == [u EXCEPT !.log = Append(@, name), !.pc = next]

\* The `?` after a failed call that also moves on to the next frame slot.
FrameErr_advance(u, name) ==
    [u EXCEPT !.pc = "idle", !.ret = "Err", !.log = Append(@, name \o " failed"),
              !.faults = @ + 1, !.err = name, !.current_frame = next_frame(@)]

\* The `?` after a failed call: draw_request returns the error at once.
\* err keeps the call that failed last.
FrameErr(u, name) ==
    [u EXCEPT !.pc = "idle", !.ret = "Err", !.log = Append(@, name \o " failed"),
              !.faults = @ + 1, !.err = name]

\* The start of draw_request: a minimized window returns Ok, else the
\* statistics text is queued.
FrameBegin(minimized) ==
    /\ unit.phase = "frame"
    /\ unit.pc = "idle"
    /\ unit.frame < MaxFrames
    /\ unit' = IF minimized
               THEN [unit EXCEPT !.ret = "Ok", !.log = <<>>]
               ELSE [unit EXCEPT !.pc = "wait_for_fences", !.frame = @ + 1, !.log = <<>>,
                                 !.ret = "running", !.draw_pool = @ + 1]
    /\ UNCHANGED <<renderer_vars, coord>>

\* The CPU steps of draw_request up to the submission.
FrameStep ==
    /\ unit.phase = "frame"
    /\ unit' =
         CASE unit.pc = "wait_for_fences" /\ unit.fences_inflight[unit.current_frame] ->
                FrameCall(unit, "wait_for_fences", "reset_fences")
           [] unit.pc = "reset_fences" ->
                FrameCall([unit EXCEPT !.fences_inflight[unit.current_frame] = FALSE],
                          "reset_fences", "acquire_next_image")
           [] unit.pc = "acquire_next_image" ->
                FrameCall([unit EXCEPT !.acquiring = @ \cup {<<unit.frame, unit.current_frame>>}],
                          "acquire_next_image", "reset_command_buffer")
           [] unit.pc = "reset_command_buffer" ->
                FrameCall(unit, "reset_command_buffer", "begin_command_buffer")
           [] unit.pc = "begin_command_buffer" ->
                FrameCall(unit, "record", "queue_submit")
           [] OTHER -> unit
    /\ unit' # unit
    /\ UNCHANGED <<renderer_vars, coord>>

\* queue_submit: the submission waits for the slot's acquire semaphore and
\* signals the slot's release semaphore and fence.
FrameSubmit ==
    /\ unit.phase = "frame"
    /\ unit.pc = "queue_submit"
    /\ unit' = FrameCall([unit EXCEPT !.graphics_queue =
                             Append(@, [frame |-> unit.frame, slot |-> unit.current_frame,
                                        stage |-> "wait"])],
                         "queue_submit", "queue_present")
    /\ UNCHANGED <<renderer_vars, coord>>

\* queue_present, then the frame slot advances and the pool is cleared.
FramePresent ==
    /\ unit.phase = "frame"
    /\ unit.pc = "queue_present"
    /\ unit' = [unit EXCEPT
                  !.present_queue = Append(@, [frame |-> unit.frame,
                                               slot |-> unit.current_frame,
                                               rejected |-> FALSE]),
                  !.current_frame = next_frame(@),
                  !.draw_pool = 0,
                  !.log = @ \o <<"queue_present", "current_frame", "draw_pool.clear">>,
                  !.pc = "idle",
                  !.ret = "Ok"]
    /\ UNCHANGED <<renderer_vars, coord>>

\* A call of draw_request that can fail does.  A present the presentation
\* engine rejects is still enqueued and executes its semaphore wait; a
\* present that fails before that is not.
FrameFail(enqueued) ==
    /\ unit.phase = "frame"
    /\ unit.pc \in {"acquire_next_image", "queue_submit", "queue_present"}
    /\ unit.faults < MaxFaults
    /\ enqueued => unit.pc = "queue_present"
    /\ unit' = FrameErr(IF enqueued
                        THEN [unit EXCEPT !.present_queue =
                                 Append(@, [frame |-> unit.frame,
                                            slot |-> unit.current_frame,
                                            rejected |-> TRUE])]
                        ELSE unit,
                        unit.pc)
    /\ UNCHANGED <<renderer_vars, coord>>

\* The presentation engine hands over an acquired image: the acquire
\* semaphore given to acquire_next_image is signaled.
ImageAcquired ==
    /\ unit.phase = "frame"
    /\ \E a \in unit.acquiring :
         \E count \in Signaled(unit.semaphores_acquire[a[2]]) :
            unit' = [unit EXCEPT !.acquiring = @ \ {a},
                                 !.semaphores_acquire[a[2]] = count,
                                 !.acquired = @ \cup {a[1]}]
    /\ UNCHANGED <<renderer_vars, coord>>

\* The first submission of the graphics queue reaches the colour attachment
\* output stage once its wait semaphore is signaled, and completes: its
\* release semaphore and its fence are signaled.
GraphicsQueue ==
    /\ unit.phase = "frame"
    /\ unit.graphics_queue # <<>>
    /\ LET s == Head(unit.graphics_queue)
       IN IF s.stage = "wait"
          THEN /\ unit.semaphores_acquire[wait_semaphore(s.slot)] > 0
               /\ unit' = [unit EXCEPT !.semaphores_acquire[wait_semaphore(s.slot)] = @ - 1,
                                       !.graphics_queue[1].stage = "output",
                                       !.output = @ \cup {s.frame}]
          ELSE \E count \in Signaled(unit.semaphores_release[s.slot]) :
                  unit' = [unit EXCEPT !.graphics_queue = Tail(@),
                                       !.semaphores_release[s.slot] = count,
                                       !.fences_inflight[s.slot] = TRUE,
                                       !.rendered = @ \cup {s.frame}]
    /\ UNCHANGED <<renderer_vars, coord>>

\* The first present of the present queue is executed once its wait
\* semaphore is signaled.
PresentQueue ==
    /\ unit.phase = "frame"
    /\ unit.present_queue # <<>>
    /\ LET p == Head(unit.present_queue)
       IN /\ unit.semaphores_release[present_wait_semaphore(p.slot)] > 0
          /\ unit' = [unit EXCEPT !.present_queue = Tail(@),
                                  !.semaphores_release[present_wait_semaphore(p.slot)] = @ - 1,
                                  !.presented = IF p.rejected THEN @
                                                 ELSE @ \cup {p.frame}]
    /\ UNCHANGED <<renderer_vars, coord>>

FrameNew ==
    /\ unit = UnitIdle
    /\ unit' = FrameInit
    /\ UNCHANGED <<renderer_vars, coord>>

\* The calls that succeed, and the queues.
NextFrameLive ==
    \/ FrameNew
    \/ \E minimized \in BOOLEAN : FrameBegin(minimized)
    \/ FrameStep
    \/ FrameSubmit
    \/ FramePresent
    \/ ImageAcquired
    \/ GraphicsQueue
    \/ PresentQueue

NextFrame ==
    \/ NextFrameLive
    \/ \E enqueued \in BOOLEAN : FrameFail(enqueued)

SpecFrame == Init /\ [][NextFrame]_vars

\* Every call succeeds; the thread inside draw_request keeps running, the
\* presentation engine hands over every image asked for, and both queues
\* execute what they are given.  Nothing makes the caller call again.
SpecFrameLive ==
    /\ Init
    /\ [][NextFrameLive]_vars
    /\ WF_vars(FrameStep \/ FrameSubmit \/ FramePresent)
    /\ WF_vars(ImageAcquired)
    /\ WF_vars(GraphicsQueue)
    /\ WF_vars(PresentQueue)


(***************************************************************************)
(* recreate_swapchain and Drop for Renderer call by call, beside the GPU.  *)
(* calls is the log of the API calls of the operation under way, each with *)
(* the handle it is given (0 for an object the model does not follow);     *)
(* old keeps the handles the operation started with, executing the         *)
(* framebuffers that submitted frames still executing render into.         *)
(***************************************************************************)
\* Calls of recreate_swapchain in one run.
MaxRecreates == 2
\* Frames submitted in one run.
MaxSubmits == 3

\* A variant that returns without waiting.
device_wait_idle_nowait(executing) == TRUE

\* device_wait_idle returns once the device has nothing left to execute.
device_wait_idle(executing) == executing = {}

\* The log entries of one call per handle, in the order of the handles.
Calls(name, handles) == [i \in 1..Len(handles) |-> [call |-> name, handle |-> handles[i]]]

DestroyCalls ==
    {"destroy_swapchain", "destroy_image_view", "destroy_framebuffer"}
CreateCalls ==
    {"create_swapchain", "create_image_view", "create_framebuffer"}

\* The destroy calls of Drop for Renderer on objects created from the device.
DeviceOwned ==
    DestroyCalls \cup
    {"destroy_buffer", "free_memory", "destroy_semaphore", "destroy_fence",
     "destroy_command_pool", "destroy_descriptor_pool", "destroy_descriptor_set_layout",
     "destroy_pipeline", "destroy_pipeline_layout", "destroy_render_pass"}

\* The handles the renderer stores.
SwapHandles(u) ==
    [swapchain |-> u.swapchain, image_views |-> u.image_views, frame_buffers |-> u.frame_buffers]

\* The objects Renderer::new creates, in the order of their creation; debug
\* tells whether the build has the feature render_dbg.
new_order(debug) ==
    <<"instance">> \o (IF debug THEN <<"debug_messenger">> ELSE <<>>)
      \o <<"surface", "device", "swapchain", "image_views",
           "descriptor_set_layout", "descriptor_pool",
           "render_pass", "pipeline_layout", "graphics_pipeline",
           "command_pool", "frame_buffers",
           "vertex_buffer", "vertex_buffer_memory", "index_buffer", "index_buffer_memory",
           "uniform_buffers", "uniform_buffers_memory",
           "semaphores_release", "semaphores_acquire", "fences_inflight">>

\* The surface capabilities of the devices a renderer is created on,
\* <<min_image_count, max_image_count, images the driver adds>>: a
\* max_image_count of 0 is no limit, and the driver creates no more than
\* max_image_count images.
SwapCaps == {<<1, 0, 0>>, <<1, 0, 1>>, <<2, 2, 0>>, <<1, 3, 0>>, <<1, 3, 1>>, <<3, 3, 0>>}

\* A variant that does not clamp the count to max_image_count.
SwapchainExtension_min_image_count_unclamped(c) == c[1] + 1

\* The min_image_count SwapchainExtension::new asks create_swapchain for.
SwapchainExtension_min_image_count(c) ==
    LET count == c[1] + 1
    IN IF c[2] > 0 /\ count > c[2] THEN c[2] ELSE count

SwapInit(debug, c) ==
    [phase |-> "swap", pc |-> "idle", op |-> "new", ret |-> "Ok",
     debug |-> debug, created |-> new_order(debug), destroyed |-> <<>>,
     caps |-> c, min_image_count |-> <<SwapchainExtension_min_image_count(c)>>,
     objects |-> InitObjects(InitialWindowSize, SwapchainExtension_min_image_count(c) + c[3]),
     swapchain |-> 1,
     image_views |-> [i \in 1..(SwapchainExtension_min_image_count(c) + c[3]) |-> 1 + i],
     frame_buffers |-> [i \in 1..(SwapchainExtension_min_image_count(c) + c[3]) |->
                           1 + SwapchainExtension_min_image_count(c) + c[3] + i],
     viewport |-> <<FromInt(InitialWindowSize[1]), FromInt(InitialWindowSize[2])>>,
     scissor |-> InitialWindowSize,
     new_size |-> InitialWindowSize, last_size |-> InitialWindowSize,
     executing |-> {}, calls |-> <<>>,
     old |-> [swapchain |-> 0, image_views |-> <<>>, frame_buffers |-> <<>>],
     recreates |-> 0, submits |-> 0, faults |-> 0]

SwapNew(debug, c) ==
    /\ unit = UnitIdle
    /\ unit' = SwapInit(debug, c)
    /\ UNCHANGED <<renderer_vars, coord>>

\* draw_request submits a frame that renders into the framebuffer of the
\* acquired image; at most MAX_FRAMES_INFLIGHT frames are in flight.
SwapDraw(index) ==
    /\ unit.phase = "swap"
    /\ unit.pc = "idle"
    /\ unit.ret = "Ok"
    /\ unit.submits < MaxSubmits
    /\ Cardinality(unit.executing) < MAX_FRAMES_INFLIGHT
    /\ index \in 1..Len(unit.frame_buffers)
    /\ unit' = [unit EXCEPT !.executing = @ \cup {unit.frame_buffers[index]},
                            !.submits = @ + 1]
    /\ UNCHANGED <<renderer_vars, coord>>

\* The GPU completes a submitted frame.
SwapGpu ==
    /\ unit.phase = "swap"
    /\ \E fb \in unit.executing : unit' = [unit EXCEPT !.executing = @ \ {fb}]
    /\ UNCHANGED <<renderer_vars, coord>>

\* The start of recreate_swapchain: a zero size returns Ok at once.
\* last_size keeps the last size passed whose width and height are not zero.
SwapRecreate(new_size) ==
    /\ unit.phase = "swap"
    /\ unit.pc = "idle"
    /\ unit.ret = "Ok"
    /\ unit.recreates < MaxRecreates
    /\ new_size # unit.new_size
    /\ unit' = [unit EXCEPT !.op = "recreate_swapchain", !.new_size = new_size,
                            !.last_size = IF new_size[1] # 0 /\ new_size[2] # 0
                                          THEN new_size ELSE @,
                            !.calls = <<>>, !.old = SwapHandles(unit),
                            !.recreates = @ + 1,
                            !.pc = IF ZeroExtent(new_size) THEN "idle"
                                   ELSE "device_wait_idle"]
    /\ UNCHANGED <<renderer_vars, coord>>

\* The calls of recreate_swapchain, one call or one loop of calls a step.
SwapStep ==
    /\ unit.phase = "swap"
    /\ unit' =
         CASE unit.pc = "device_wait_idle" /\ device_wait_idle(unit.executing) ->
                [unit EXCEPT !.calls = @ \o Calls("device_wait_idle", <<0>>),
                             !.pc = "destroy_swapchain"]
           [] unit.pc = "destroy_swapchain" ->
                [unit EXCEPT !.calls = @ \o Calls("destroy_swapchain", <<unit.swapchain>>),
                             !.objects = DestroyObjects(@, {unit.swapchain}),
                             !.pc = "destroy_image_view"]
           [] unit.pc = "destroy_image_view" ->
                [unit EXCEPT !.calls = @ \o Calls("destroy_image_view", unit.image_views),
                             !.objects = DestroyObjects(@, Range(unit.image_views)),
                             !.pc = "destroy_framebuffer"]
           [] unit.pc = "destroy_framebuffer" ->
                [unit EXCEPT !.calls = @ \o Calls("destroy_framebuffer", unit.frame_buffers),
                             !.objects = DestroyObjects(@, Range(unit.frame_buffers)),
                             !.pc = "viewport"]
           [] unit.pc = "viewport" ->
                [unit EXCEPT !.calls = @ \o Calls("viewport", <<0>>),
                             !.viewport = <<FromInt(unit.new_size[1]),
                                            FromInt(unit.new_size[2])>>,
                             !.scissor = unit.new_size,
                             !.pc = "create_swapchain"]
           [] unit.pc = "create_swapchain" ->
                LET o == Append(unit.objects,
                                NewSwapchain(unit.scissor, SwapchainImages(unit.caps)))
                IN [unit EXCEPT !.calls = @ \o Calls("create_swapchain", <<Len(o)>>),
                                !.min_image_count = Append(@, MinImageCount(unit.caps)),
                                !.objects = o, !.swapchain = Len(o),
                                !.pc = "create_image_view"]
           [] unit.pc = "create_image_view" ->
                LET n == unit.objects[unit.swapchain].images
                    o == CreateObjects(unit.objects, "image_view", unit.new_size, n)
                IN [unit EXCEPT !.calls = @ \o Calls("create_image_view", LastHandles(o, n)),
                                !.objects = o, !.image_views = LastHandles(o, n),
                                !.pc = "create_framebuffer"]
           [] unit.pc = "create_framebuffer" ->
                LET o == FrameBuffer_new(unit.objects, unit.image_views, unit.new_size)
                    n == Len(o) - Len(unit.objects)
                IN [unit EXCEPT !.calls = @ \o Calls("create_framebuffer", LastHandles(o, n)),
                                !.objects = o, !.frame_buffers = LastHandles(o, n),
                                !.pc = "idle"]
           [] OTHER -> unit
    /\ unit' # unit
    /\ UNCHANGED <<renderer_vars, coord>>

\* A call of recreate_swapchain that can fail does: the `?` returns Err.
SwapFail ==
    /\ unit.phase = "swap"
    /\ unit.pc \in {"device_wait_idle"} \cup CreateCalls
    /\ unit.faults < MaxFaults
    /\ unit' = [unit EXCEPT !.pc = "idle", !.ret = "Err", !.faults = @ + 1]
    /\ UNCHANGED <<renderer_vars, coord>>

\* The object an object of Renderer::new is created from: the instance, the
\* surface (for the swapchain), the swapchain (for the views of its images),
\* the image views (for the framebuffers), the buffer a memory is bound to,
\* and the device for all other objects.
CreatedFrom(object) ==
    CASE object = "instance" -> {}
      [] object \in {"debug_messenger", "surface", "device"} -> {"instance"}
      [] object = "swapchain" -> {"surface", "device"}
      [] object = "image_views" -> {"swapchain", "device"}
      [] object = "frame_buffers" -> {"image_views", "render_pass", "device"}
      [] object = "graphics_pipeline" -> {"pipeline_layout", "render_pass", "device"}
      [] OTHER -> {"device"}

\* The class of an object in the list buffers, sync objects, pools,
\* pipeline, views, swapchain, device, instance; 0 for the others.
DropClass(object) ==
    CASE object \in {"index_buffer", "index_buffer_memory", "vertex_buffer",
                     "vertex_buffer_memory", "uniform_buffers",
                     "uniform_buffers_memory"} -> 1
      [] object \in {"semaphores_acquire", "semaphores_release", "fences_inflight"} -> 2
      [] object \in {"command_pool", "descriptor_pool"} -> 3
      [] object = "graphics_pipeline" -> 4
      [] object = "image_views" -> 5
      [] object = "swapchain" -> 6
      [] object = "device" -> 7
      [] object = "instance" -> 8
      [] OTHER -> 0

\* One destroy call of Drop for Renderer and the field it is given.
Destroy(call, object) == [call |-> call, object |-> object]

\* The destroy calls of Drop for Renderer on the objects created from the
\* device, in their order.
drop_device_objects ==
    <<Destroy("destroy_buffer", "index_buffer"),
      Destroy("free_memory", "index_buffer_memory"),
      Destroy("destroy_buffer", "vertex_buffer"),
      Destroy("free_memory", "vertex_buffer_memory"),
      Destroy("destroy_semaphore", "semaphores_acquire"),
      Destroy("destroy_semaphore", "semaphores_release"),
      Destroy("destroy_fence", "fences_inflight"),
      Destroy("destroy_command_pool", "command_pool"),
      Destroy("destroy_framebuffer", "frame_buffers"),
      Destroy("destroy_buffer", "uniform_buffers"),
      Destroy("free_memory", "uniform_buffers_memory"),
      Destroy("destroy_descriptor_pool", "descriptor_pool"),
      Destroy("destroy_descriptor_set_layout", "descriptor_set_layout"),
      Destroy("destroy_pipeline", "graphics_pipeline"),
      Destroy("destroy_pipeline_layout", "pipeline_layout"),
      Destroy("destroy_render_pass", "render_pass"),
      Destroy("destroy_image_view", "image_views"),
      Destroy("destroy_swapchain", "swapchain")>>

\* A variant that destroys the device before the objects created from it.
drop_order_device_first(debug) ==
    <<Destroy("destroy_device", "device")>> \o drop_device_objects
      \o <<Destroy("destroy_surface", "surface")>>
      \o (IF debug THEN <<Destroy("destroy_debug_utils_messenger", "debug_messenger")>>
          ELSE <<>>)
      \o <<Destroy("destroy_instance", "instance")>>

\* The destroy calls of Drop for Renderer in their order; the debug
\* messenger is destroyed when there is one.
drop_order(debug) ==
    drop_device_objects
      \o <<Destroy("destroy_surface", "surface"), Destroy("destroy_device", "device")>>
      \o (IF debug THEN <<Destroy("destroy_debug_utils_messenger", "debug_messenger")>>
          ELSE <<>>)
      \o <<Destroy("destroy_instance", "instance")>>

\* The handles a field of the renderer holds: those of the swapchain's
\* objects are followed, the others stand as 0, one for every frame slot
\* where the field is a vector.
DropFieldHandles(u, object) ==
    CASE object = "frame_buffers" -> u.frame_buffers
      [] object = "image_views" -> u.image_views
      [] object = "swapchain" -> <<u.swapchain>>
      [] object \in {"semaphores_acquire", "semaphores_release", "fences_inflight",
                     "uniform_buffers", "uniform_buffers_memory"} ->
           [i \in 1..MAX_FRAMES_INFLIGHT |-> 0]
      [] OTHER -> <<0>>

RECURSIVE DropLog(_, _)
\* The log of the destroy calls of an order, one entry for every handle.
DropLog(u, order) ==
    IF order = <<>> THEN <<>>
    ELSE Calls(Head(order).call, DropFieldHandles(u, Head(order).object))
           \o DropLog(u, Tail(order))

drop_calls(u, debug) == DropLog(u, drop_order(debug))

\* Drop for Renderer.
SwapDrop ==
    /\ unit.phase = "swap"
    /\ unit.pc = "idle"
    /\ unit' = [unit EXCEPT !.op = "drop", !.pc = "dropped", !.old = SwapHandles(unit),
                            !.calls = drop_calls(unit, unit.debug),
                            !.destroyed = [i \in 1..Len(drop_order(unit.debug)) |->
                                              drop_order(unit.debug)[i].object],
                            !.objects = DestroyObjects(@, Range(unit.frame_buffers)
                                                            \cup Range(unit.image_views)
                                                            \cup {unit.swapchain})]
    /\ UNCHANGED <<renderer_vars, coord>>

NextSwap ==
    \/ \E debug \in BOOLEAN, c \in SwapCaps : SwapNew(debug, c)
    \/ \E index \in 1..3 : SwapDraw(index)
    \/ SwapGpu
    \/ \E new_size \in WindowSizes : SwapRecreate(new_size)
    \/ SwapStep
    \/ SwapFail
    \/ SwapDrop

SpecSwap == Init /\ [][NextSwap]_vars


(***************************************************************************)
(* Properties of the coordinate conversions (SpecCoord).                   *)
(***************************************************************************)
\* The f32 literal 1e-4.
F32_1e_4 == FDiv(FromInt(1), FromInt(10000))
\* 2^-20 as an f32.
F32_2_pow_m20 == FNum(0, 8388608, -43)

\* a is a number that differs from the pixel coordinate n by at most tol.
\* The difference of two f32 values this close is exact.
Within(a, n, tol) == IsNum(a) /\ FLe(FAbs(FSub(a, FromInt(n))), tol)

\* Both round trips of the pixel end within tol_x of x and tol_y of y.
RoundTripWithin(tol_x, tol_y) ==
    /\ Within(coord.screen[1], coord.pixel[1], tol_x)
    /\ Within(coord.screen[2], coord.pixel[2], tol_y)
    /\ Within(coord.r_screen[1], coord.pixel[1], tol_x)
    /\ Within(coord.r_screen[2], coord.pixel[2], tol_y)

\* C9 as stated: for every window size and every pixel of the window, the
\* round trip screen -> world -> screen, by WorldPos2D::from_xy and
\* ScreenPos2D::from_world_pos as by Renderer::screen_to_world and
\* Renderer::world_to_screen, ends within 1e-4 of the pixel in x and in y.
C9_RoundTrip1e4 ==
    coord.phase = "screen" => RoundTripWithin(F32_1e_4, F32_1e_4)

\* C9, amended: in a window of non-zero extents w x h both round trips end
\* within w * 2^-20 of x and within h * 2^-20 of y (1e-4 is exceeded in x
\* at 1280 x 720); in a window with a zero extent both coordinates of the
\* coord_sys round trip are NaN, and so is the renderer's coordinate along
\* the zero extent.
C9_RoundTripScaled ==
    coord.phase = "screen" =>
       IF coord.size[1] > 0 /\ coord.size[2] > 0
       THEN RoundTripWithin(FMul(FromInt(coord.size[1]), F32_2_pow_m20),
                            FMul(FromInt(coord.size[2]), F32_2_pow_m20))
       ELSE /\ coord.screen[1].k = "nan"
            /\ coord.screen[2].k = "nan"
            /\ coord.size[1] = 0 => coord.r_screen[1].k = "nan"
            /\ coord.size[2] = 0 => coord.r_screen[2].k = "nan"

\* A pixel of the 1280 x 720 window whose round trip misses 1e-4 in x.
C9_Witness ==
    /\ coord.phase = "screen"
    /\ coord.size = <<1280, 720>>
    /\ coord.pixel = <<744, 0>>
    /\ ~Within(coord.screen[1], 744, F32_1e_4)
    /\ Within(coord.screen[1], 744, FMul(FromInt(1280), F32_2_pow_m20))

\* C10 as stated: in the 800 x 600 window WorldPos2D::from_xy maps the
\* top-left pixel (0,0) to (-800/600, -1), the centre (400,300) to (0,0) and
\* the bottom-right pixel (800,600) to (800/600, 1).
C10_AspectMapping ==
    (coord.phase = "world" /\ coord.size = <<800, 600>>) =>
       /\ coord.pixel = <<0, 0>> =>
             /\ FEq(coord.world[1], FNeg(FDiv(FromInt(800), FromInt(600))))
             /\ FEq(coord.world[2], FromInt(-1))
       /\ coord.pixel = <<400, 300>> =>
             /\ FEq(coord.world[1], F32Zero)
             /\ FEq(coord.world[2], F32Zero)
       /\ coord.pixel = <<800, 600>> =>
             /\ FEq(coord.world[1], FDiv(FromInt(800), FromInt(600)))
             /\ FEq(coord.world[2], FromInt(1))


(***************************************************************************)
(* Properties of the renderer (Spec).                                      *)
(***************************************************************************)
\* C1 as stated: whenever draw_request has returned Ok, whatever the window
\* and whatever was queued before the call, the draw pool is empty.
C1_PoolEmptyAfterOk ==
    (pc = "idle" /\ ret.op = "draw_request" /\ ret.result = "Ok") => draw_pool = <<>>

\* C2: the fence of a frame slot is reset, and the slot's command buffer is
\* reset and recorded again, only when the GPU has completed every earlier
\* submission of the slot; so no slot ever has more than one submission in
\* flight.
C2_SlotReusedAfterCompletion ==
    [][/\ (pc = "wait_for_fences" /\ pc' = "acquire_next_image") =>
             gpu_pending[current_frame] = 0
       /\ (pc = "acquire_next_image" /\ pc' = "queue_submit") =>
             gpu_pending[current_frame] = 0 /\ cmd[current_frame].state # "pending"
       /\ \A i \in Slots : gpu_pending'[i] <= 1]_vars

\* The third frame is about to record into the slot of the first one, whose
\* submission the GPU has completed.
C2_Witness ==
    /\ pc = "acquire_next_image"
    /\ ops.frames >= MAX_FRAMES_INFLIGHT
    /\ cmd[current_frame].state = "executable"
    /\ gpu_pending[current_frame] = 0
    /\ ~fences_inflight[current_frame]

\* C3 as stated: once k calls of draw_request have returned, current_frame
\* is k mod 2, whatever the window was during the calls.
C3_SlotIsCallsMod ==
    pc = "idle" => current_frame = ops.calls % MAX_FRAMES_INFLIGHT

\* C3, amended: current_frame is the number of draw_request calls that
\* presented a frame, mod 2; a call on a minimized window and a call that
\* returns Err leave current_frame as it was.
C3_SlotIsFramesMod ==
    current_frame = ops.frames % MAX_FRAMES_INFLIGHT

\* Three calls have returned, one of them without presenting a frame.
C3_Witness ==
    /\ pc = "idle"
    /\ ops.calls = 3
    /\ ops.frames = 2
    /\ current_frame = 0

\* C4: recreate_swapchain with a zero width or a zero height returns Ok and
\* leaves the swapchain, the image views, the framebuffers, the viewport and
\* the scissor as they were; no object is destroyed or created.
C4_ZeroSizeRecreateNoOp ==
    [][(/\ ops'.app = ops.app + 1
        /\ ret'.op = "recreate_swapchain"
        /\ (ret'.arg[1] = 0 \/ ret'.arg[2] = 0))
       => (ret'.result = "Ok" /\ UNCHANGED swapchain_vars)]_vars

\* recreate_swapchain has returned from a call with a zero extent, and the
\* renderer still holds the swapchain it was constructed with.
C4_Witness ==
    /\ ret.op = "recreate_swapchain"
    /\ (ret.arg[1] = 0 \/ ret.arg[2] = 0)
    /\ ret.result = "Ok"
    /\ swapchain = 1
    /\ objects[swapchain].alive

\* C5: draw_request on a window of zero width or zero height returns Ok
\* at once: no fence is waited for or reset, no image acquired, nothing
\* recorded or submitted, and current_frame, the draw pool, the fences and
\* the statistics stay as they were.
C5_MinimizedDrawNoOp ==
    [][(ops'.calls = ops.calls + 1 /\ (window[1] = 0 \/ window[2] = 0))
       => /\ ret'.op = "draw_request"
          /\ ret'.result = "Ok"
          /\ pc' = "idle"
          /\ UNCHANGED <<current_frame, draw_pool, render_stats, camera, image_index>>
          /\ UNCHANGED sync_vars
          /\ UNCHANGED swapchain_vars]_vars

\* draw_request has returned on a minimized window with instances queued.
C5_Witness ==
    /\ pc = "idle"
    /\ ret.op = "draw_request"
    /\ ret.result = "Ok"
    /\ (ret.arg[1] = 0 \/ ret.arg[2] = 0)
    /\ draw_pool # <<>>

\* C6: when acquire_next_image, queue_submit or queue_present fails,
\* draw_request returns Err at that step: no step is tried again, and
\* current_frame and the draw pool are as they were before the failure.
C6_FailureReturnsErr ==
    [][(/\ pc \in {"acquire_next_image", "queue_submit", "queue_present"}
        /\ ops'.faults = ops.faults + 1)
       => /\ pc' = "idle"
          /\ ret'.op = "draw_request"
          /\ ret'.result = "Err"
          /\ UNCHANGED <<current_frame, draw_pool>>
          /\ UNCHANGED sync_vars]_vars

\* draw_request has returned Err with the frame's instances still queued.
C6_Witness ==
    /\ pc = "idle"
    /\ ret.op = "draw_request"
    /\ ret.result = "Err"
    /\ draw_pool # <<>>
    /\ current_frame = ops.frames % MAX_FRAMES_INFLIGHT

\* The indexed draw calls of a command sequence, in order, each with its
\* position in the sequence.
DrawCalls(commands) ==
    SelectSeq([j \in 1..Len(commands) |-> [at |-> j, command |-> commands[j]]],
              LAMBDA e : e.command.op = "draw_indexed")

\* C7: in the command buffer draw_request has recorded, there are as many
\* indexed draw calls as the draw pool has instances, and the k-th of them
\* belongs to the k-th instance in insertion order: the command right before
\* it pushes that instance's transform and colour, and it draws the
\* index_count indices at index_offset of that instance's mesh.
C7_DrawOrderIsInsertionOrder ==
    pc \in {"queue_submit", "queue_present"} =>
       LET commands == cmd[current_frame].commands
           draws    == DrawCalls(commands)
       IN /\ Len(draws) = Len(draw_pool)
          /\ \A k \in 1..Len(draws) :
                LET instance == draw_pool[k]
                    mesh     == object_pool.pool[instance.object_index]
                    at       == draws[k].at
                IN /\ at > 1
                   /\ commands[at - 1].op = "push_constants"
                   /\ commands[at - 1].transform =
                         [scale       |-> instance.scale,
                          rotation_z  |-> instance.rotation,
                          translation |-> instance.position]
                   /\ commands[at - 1].color = instance.color
                   /\ commands[at].index_count = mesh.index_count
                   /\ commands[at].first_index = mesh.index_offset

\* A frame has been recorded whose pool holds a shape followed by the
\* glyphs of the statistics text.
C7_Witness ==
    /\ pc = "queue_submit"
    /\ Len(draw_pool) >= 2
    /\ draw_pool[1].object_index >= CIRCLE
    /\ draw_pool[Len(draw_pool)].object_index < CIRCLE
    /\ Len(DrawCalls(cmd[current_frame].commands)) = Len(draw_pool)

\* C8: with the camera at (cx, cy) after any shifts, shape with the anchor
\* Locked and the centre (x, y) appends one instance at (x + cx, y + cy, 0)
\* and with the anchor Unlocked one instance at (x, y, 0); the instances
\* queued before stay as they were.
C8_AnchorPosition ==
    [][(ops'.app = ops.app + 1 /\ ret'.op = "shape")
       => LET a == ret'.arg
              c == camera.position
          IN /\ Len(draw_pool') = Len(draw_pool) + 1
             /\ SubSeq(draw_pool', 1, Len(draw_pool)) = draw_pool
             /\ draw_pool'[Len(draw_pool')].position =
                   IF a.anchor = "Locked"
                   THEN <<FAdd(a.center[1], c[1]), FAdd(a.center[2], c[2]), F32Zero>>
                   ELSE <<a.center[1], a.center[2], F32Zero>>]_vars

\* A Locked shape has been queued with the camera shifted off the origin.
C8_Witness ==
    /\ ret.op = "shape"
    /\ ret.arg.anchor = "Locked"
    /\ ~IsZero(camera.position[1])
    /\ ~IsZero(camera.position[2])
    /\ draw_pool # <<>>
    /\ draw_pool[Len(draw_pool)].position[1] # ret.arg.center[1]


(***************************************************************************)
(* Properties of Renderer::text (SpecText).                                *)
(***************************************************************************)
\* The glyph-table entry of byte i of a text.
Entry(str, i) == CHAR_OBJECT_POOL[str[i] + 1]

\* The positions of the bytes of a text that have a glyph, in order.
GlyphBytes(str) ==
    SelectSeq([i \in 1..Len(str) |-> i], LAMBDA i : Entry(str, i) \notin {253, 254, 255})

\* The cursor before each byte of the text of the call a (and after the
\* last one), from the rules of the bytes: a byte without a glyph leaves
\* it, a new line returns it to the anchor's x one line lower, any other
\* byte moves it right by scale * 0.03.
Cursors(a, anchor) ==
    LET cur[i \in 1..(Len(a.text) + 1)] ==
          IF i = 1 THEN anchor
          ELSE CASE Entry(a.text, i - 1) = 255 -> cur[i - 1]
                 [] Entry(a.text, i - 1) = 253 ->
                      <<anchor[1], FSub(cur[i - 1][2], FMul(a.scale, F32_0_05)), cur[i - 1][3]>>
                 [] OTHER ->
                      <<FAdd(cur[i - 1][1], FMul(a.scale, F32_0_03)), cur[i - 1][2], cur[i - 1][3]>>
    IN cur

\* The anchor position of the call a of Renderer::text with the camera cam.
AnchorOf(a, cam) ==
    TextAnchor(cam.position, FMul(a.scale, F32_0_03), FMul(a.scale, F32_0_05),
               a.top_left, a.anchor)

\* The instances the pool has gained in this step.
Appended == SubSeq(draw_pool', Len(draw_pool) + 1, Len(draw_pool'))

\* C11: text keeps the instances of the pool and appends, in byte order,
\* one instance for every byte with a glyph, at the cursor as it stands
\* before that byte; a byte without a glyph (255) and a space (254) append
\* nothing, the first leaving the cursor, the second moving it right by
\* scale * 0.03 as a glyph does.
C11_TextOneInstancePerGlyph ==
    [][(ops'.app = ops.app + 1 /\ ret'.op = "text")
       => LET a      == ret'.arg
              glyphs == GlyphBytes(a.text)
              cur    == Cursors(a, AnchorOf(a, camera))
          IN /\ SubSeq(draw_pool', 1, Len(draw_pool)) = draw_pool
             /\ Len(Appended) = Len(glyphs)
             /\ \A k \in 1..Len(glyphs) :
                   /\ Appended[k].position = cur[glyphs[k]]
                   /\ Appended[k].object_index = Entry(a.text, glyphs[k])
                   /\ Appended[k].scale = <<a.scale, a.scale, F32Zero>>]_vars

\* A text of a byte without a glyph, a space and 'A' has been queued after
\* a shape: its one instance stands one step right of the anchor.
C11_Witness ==
    /\ ret.op = "text"
    /\ ret.arg.text = <<195, 32, 65>>
    /\ Len(draw_pool) = 2
    /\ draw_pool[1].object_index >= CIRCLE
    /\ draw_pool[2].object_index = 26
    /\ draw_pool[2].position[1] =
          FAdd(AnchorOf(ret.arg, camera)[1], FMul(ret.arg.scale, F32_0_03))

\* C12: a new line appends no instance; a glyph that follows a new line
\* stands at the anchor's x, and when the new line follows a glyph directly,
\* scale * 0.05 lower than that glyph.  So glyph, new line, glyph gives
\* exactly two instances.
C12_NewLineReturnsCursor ==
    [][(ops'.app = ops.app + 1 /\ ret'.op = "text")
       => LET a      == ret'.arg
              glyphs == GlyphBytes(a.text)
              anchor == AnchorOf(a, camera)
          IN /\ Len(draw_pool') = Len(draw_pool) + Len(glyphs)
             /\ \A k \in 1..Len(glyphs) :
                   (glyphs[k] > 1 /\ Entry(a.text, glyphs[k] - 1) = 253) =>
                      /\ Appended[k].position[1] = anchor[1]
                      /\ (k > 1 /\ glyphs[k - 1] = glyphs[k] - 2) =>
                            Appended[k].position[2] =
                               FSub(Appended[k - 1].position[2], FMul(a.scale, F32_0_05))
             /\ (/\ Len(a.text) = 3
                 /\ Entry(a.text, 1) \notin {253, 254, 255}
                 /\ Entry(a.text, 2) = 253
                 /\ Entry(a.text, 3) \notin {253, 254, 255}) => Len(Appended) = 2]_vars

\* 'A', new line, 'B' has been queued into an empty pool: two instances,
\* the second below the first.
C12_Witness ==
    /\ ret.op = "text"
    /\ ret.arg.text = <<65, 10, 66>>
    /\ Len(draw_pool) = 2
    /\ draw_pool[2].position[1] = draw_pool[1].position[1]
    /\ FLt(draw_pool[2].position[2], draw_pool[1].position[2])


(***************************************************************************)
(* Properties of the mesh loader (SpecLoad).                               *)
(***************************************************************************)
\* The number of vertex lines of a file.
VerticesOf(file) ==
    LET sum[i \in 0..Len(file)] ==
          IF i = 0 THEN 0
          ELSE sum[i - 1] + (IF file[i].kind = "v" THEN file[i].count ELSE 0)
    IN sum[Len(file)]

\* The values of the face lines of a file, in order.
FaceValuesOf(file) ==
    LET acc[i \in 0..Len(file)] ==
          IF i = 0 THEN <<>>
          ELSE acc[i - 1] \o (IF file[i].kind = "f" THEN file[i].values ELSE <<>>)
    IN acc[Len(file)]

\* The face values of the files, each made 0-based and raised by the number
\* of vertices of the files before its own.
Rebased(files) ==
    LET before[k \in 0..Len(files)] ==
          IF k = 0 THEN 0 ELSE before[k - 1] + VerticesOf(files[k])
        acc[k \in 0..Len(files)] ==
          IF k = 0 THEN <<>>
          ELSE acc[k - 1] \o [j \in 1..Len(FaceValuesOf(files[k])) |->
                                 FaceValuesOf(files[k])[j] - 1 + before[k - 1]]
    IN acc[Len(files)]

\* C13 as stated: when load_obj_files returns the pool of files whose face
\* indices are 1-based, every face index v of every file is in the index
\* buffer as (v - 1) + the number of vertices of the files loaded before
\* its file.
C13_IndicesRebased ==
    (/\ unit.phase = "loaded"
     /\ unit.st.result = "Ok"
     /\ \A k \in 1..Len(unit.files) :
           \A j \in 1..Len(FaceValuesOf(unit.files[k])) : FaceValuesOf(unit.files[k])[j] >= 1)
    => unit.st.indices = Rebased(unit.files)


(***************************************************************************)
(* Properties of the device selection (SpecDevice).                        *)
(***************************************************************************)
\* A device meets the five criteria: discrete GPU, swapchain extension,
\* surface format, present mode, and a graphics queue family together with
\* a different family that can present.
Qualifies(d) ==
    /\ d.discrete /\ d.extension /\ d.format /\ d.mode
    /\ \E i, j \in 1..Len(d.families) :
          i # j /\ d.families[i].graphics /\ d.families[j].present

\* The devices of the call that meet the five criteria, by number.
Qualifying == {pd \in 1..Len(unit.devices) : Qualifies(unit.devices[pd])}

\* C14 as stated: when no API call fails, Device::new takes the first
\* enumerated device that meets the five criteria, whatever the order of
\* its queue families, and fails only when no device meets them.
C14_FirstQualifyingDevice ==
    (unit.phase = "device" /\ unit.fault = "none") =>
       IF Qualifying = {} THEN unit.result = "Err"
       ELSE /\ unit.result = "Ok"
            /\ unit.sel.physical_device \in Qualifying
            /\ \A pd \in Qualifying : unit.sel.physical_device <= pd

\* C15: Device::new returns Ok or Err and never panics on an unwrap; with
\* Ok both queue family indices are defined, differ, and are families of
\* the device taken, the first with the GRAPHICS flag and the second able
\* to present; when no device meets the criteria it returns Err.
C15_QueueIndicesDefined ==
    unit.phase = "device" =>
       /\ unit.result \in {"Ok", "Err"}
       /\ Qualifying = {} => unit.result = "Err"
       /\ unit.result = "Ok" =>
             LET d == unit.devices[unit.sel.physical_device]
                 g == unit.sel.graphics_queue_index
                 p == unit.sel.present_queue_index
             IN /\ g \in 0..(Len(d.families) - 1)
                /\ p \in 0..(Len(d.families) - 1)
                /\ g # p
                /\ d.families[g + 1].graphics
                /\ d.families[p + 1].present

\* The second device has been taken after the first one, which has a
\* graphics family, was turned down at its queue families.
C15_Witness ==
    /\ unit.phase = "device"
    /\ unit.result = "Ok"
    /\ unit.sel.physical_device = 2
    /\ unit.devices[1].discrete /\ unit.devices[1].extension
    /\ unit.devices[1].format /\ unit.devices[1].mode
    /\ \E i \in 1..Len(unit.devices[1].families) : unit.devices[1].families[i].graphics
    /\ unit.sel.graphics_queue_index = 0
    /\ unit.sel.present_queue_index = 1


(***************************************************************************)
(* Swapchain images, image views and framebuffers.                         *)
(***************************************************************************)
\* The number of images of the swapchain the renderer holds.
swapchain_images == objects[swapchain].images

\* C16: after Renderer::new and after every successful recreate_swapchain
\* there are as many image views as framebuffers as swapchain images, and
\* the image index an acquisition returned is an index into frame_buffers.
C16_ViewsFramebuffersImages ==
    /\ (ret.op = "new" \/ (ret.op = "recreate_swapchain" /\ ret.result = "Ok"))
          => /\ Len(image_views) = swapchain_images
             /\ Len(frame_buffers) = Len(image_views)
    /\ pc \in {"queue_submit", "queue_present"}
          => /\ image_index + 1 \in 1..Len(frame_buffers)
             /\ cmd[current_frame].commands[1].framebuffer = frame_buffers[image_index + 1]

\* A frame acquired the last image of a recreated swapchain of three images.
C16_Witness ==
    /\ pc = "queue_submit"
    /\ swapchain # 1
    /\ swapchain_images = 3
    /\ image_index = 2
    /\ Len(frame_buffers) = 3

\* The swapchain, image-view and framebuffer handles the renderer stores.
StoredHandles == {swapchain} \cup Range(image_views) \cup Range(frame_buffers)

\* C17: after recreate_swapchain returns, with Ok or with Err, every stored
\* swapchain, image-view and framebuffer handle refers to a live object, and
\* the drop that follows destroys no object a second time.
C17_RecreateAtomic ==
    /\ ret.op = "recreate_swapchain" => \A h \in StoredHandles : objects[h].alive
    /\ ret.op = "drop" => ret.twice = {}

(***************************************************************************)
(* Uniform buffers.                                                        *)
(***************************************************************************)
\* The frame slots with a submission the GPU has not completed whose
\* commands bind descriptor set i, which refers to uniform buffer i.
GpuReads(i) ==
    {j \in Slots : /\ gpu_pending[j] > 0
                   /\ \E k \in 1..Len(cmd[j].commands) :
                         /\ cmd[j].commands[k].op = "bind_descriptor_sets"
                         /\ cmd[j].commands[k].set = i}

\* C18: the view and projection are written to the uniform buffer of slot i
\* only by a draw_request that runs on slot i and has waited for the slot's
\* fence, and no submission that reads this uniform buffer is executing
\* when it is written.
C18_UniformWriteAfterFence ==
    [][/\ \A i \in Slots :
             uniform_buffers'[i] # uniform_buffers[i] =>
                i = current_frame /\ pc = "acquire_next_image"
       /\ (pc = "acquire_next_image" /\ pc' = "queue_submit") =>
             /\ uniform_buffers'[current_frame].written
             /\ uniform_buffers'[current_frame].projection = camera'.projection
             /\ GpuReads(current_frame) = {}]_vars

\* The third frame has written the uniform buffer of its slot, which the
\* first frame's submission read, while the second frame's submission is
\* still executing.
C18_Witness ==
    /\ pc = "queue_submit"
    /\ ops.frames >= MAX_FRAMES_INFLIGHT
    /\ uniform_buffers[current_frame].written
    /\ GpuReads(current_frame) = {}
    /\ \E j \in Slots \ {current_frame} : GpuReads(j) = {j}

(***************************************************************************)
(* Errors in the render loops.                                             *)
(***************************************************************************)
\* C19: when draw_request or recreate_swapchain returns Err in a render
\* loop, the loop requests exit, no further call of the renderer is made,
\* and run returns the error.
C19_ErrExitsLoopAndSurfaces ==
    /\ (unit.phase = "app_loop" /\ unit.last = "Err") => unit.exit
    /\ unit.phase \in {"app_loop", "app_returned"} => unit.late = 0
    /\ (unit.phase = "app_returned" /\ unit.errs > 0) => unit.run = "Err"

(***************************************************************************)
(* Zoom.                                                                   *)
(***************************************************************************)
\* C20: after any calls of Scene::zoom on a new scene, camera_zoom lies in
\* [0.1, 2.0].
C20_ZoomInRange ==
    unit.phase = "scene" =>
        FLe(F32_0_1, unit.camera_zoom) /\ FLe(unit.camera_zoom, FromInt(2))

(***************************************************************************)
(* Camera::update_projection.                                              *)
(***************************************************************************)
\* C21: the update_projection of a draw_request leaves the camera as it is
\* when the cached width and height equal the window's size, and else sets
\* the cached size and recomputes the projection; the position and the view
\* stay, and afterwards the cached size is the window's size.
C21_UpdateProjection ==
    [][(pc = "acquire_next_image" /\ pc' = "queue_submit") =>
          /\ IF camera.width = FromInt(window[1]) /\ camera.height = FromInt(window[2])
             THEN camera' = camera
             ELSE camera'.projection = orthographic(FromInt(window[1]), FromInt(window[2]))
          /\ camera'.position = camera.position
          /\ camera'.view = camera.view
          /\ camera'.width = FromInt(window'[1])
          /\ camera'.height = FromInt(window'[2])]_vars

\* A frame on a resized window has recomputed the projection for its size.
C21_Witness ==
    /\ pc = "queue_submit"
    /\ window # InitialWindowSize
    /\ camera.width = FromInt(window[1])
    /\ camera.projection = orthographic(FromInt(window[1]), FromInt(window[2]))
    /\ camera.projection # orthographic(FromInt(InitialWindowSize[1]),
                                        FromInt(InitialWindowSize[2]))

(***************************************************************************)
(* The extent of the world space of the coordinate conversions.            *)
(***************************************************************************)
\* C22: in a window with w # h the corners convert to world positions whose
\* coordinate along the larger window dimension is -1 or 1 and whose
\* coordinate along the smaller dimension is smaller in magnitude.
C22_LargerDimensionSpansUnit ==
    (/\ coord.phase = "world"
     /\ coord.size[1] # coord.size[2]
     /\ coord.size[1] > 0 /\ coord.size[2] > 0
     /\ coord.pixel[1] \in {0, coord.size[1]}
     /\ coord.pixel[2] \in {0, coord.size[2]}) =>
       LET larger  == IF coord.size[1] > coord.size[2] THEN 1 ELSE 2
           smaller == 3 - larger
       IN /\ FEq(FAbs(coord.world[larger]), F32One)
          /\ FLt(FAbs(coord.world[smaller]), F32One)

\* C22, amended: in a window with w # h the corners convert to world
\* positions whose coordinate along the smaller window dimension is -1 or 1
\* and whose coordinate along the larger dimension has the magnitude
\* larger / smaller, which is greater than 1.
C22_SmallerDimensionSpansUnit ==
    (/\ coord.phase = "world"
     /\ coord.size[1] # coord.size[2]
     /\ coord.size[1] > 0 /\ coord.size[2] > 0
     /\ coord.pixel[1] \in {0, coord.size[1]}
     /\ coord.pixel[2] \in {0, coord.size[2]}) =>
       LET larger  == IF coord.size[1] > coord.size[2] THEN 1 ELSE 2
           smaller == 3 - larger
       IN /\ FEq(FAbs(coord.world[smaller]), F32One)
          /\ FEq(FAbs(coord.world[larger]),
                 FDiv(FromInt(coord.size[larger]), FromInt(coord.size[smaller])))
          /\ FGt(FAbs(coord.world[larger]), F32One)

\* The bottom-right corner of a 1280 x 720 window is converted.
C22_Witness ==
    /\ coord.phase = "world"
    /\ coord.size = <<1280, 720>>
    /\ coord.pixel = <<1280, 720>>
    /\ FEq(FAbs(coord.world[1]), FDiv(FromInt(1280), FromInt(720)))
    /\ FEq(FAbs(coord.world[2]), F32One)

(***************************************************************************)
(* The steps of a frame and its synchronisation (SpecFrame).               *)
(***************************************************************************)
\* The calls of a draw_request that returns Ok on a window that is not
\* minimized, in their order.
FrameCalls ==
    <<"wait_for_fences", "reset_fences", "acquire_next_image", "reset_command_buffer",
      "record", "queue_submit", "queue_present", "current_frame", "draw_pool.clear">>

\* The state of frame slot i in the loop's state u.
SlotState(u, i) ==
    IF \E k \in 1..Len(u.graphics_queue) : u.graphics_queue[k].slot = i THEN "Submitted"
    ELSE IF u.current_frame = i /\ u.pc = "acquire_next_image" THEN "Acquiring"
    ELSE IF u.current_frame = i
            /\ u.pc \in {"reset_command_buffer", "begin_command_buffer", "queue_submit"}
    THEN "Recording"
    ELSE "Idle"

\* C23: a draw_request that returns Ok on a window that is not minimized has
\* waited for the slot's fence, reset it, acquired an image, reset and
\* recorded the command buffer, submitted it, presented, advanced
\* current_frame by one modulo 2 and cleared the pool, each once and in this
\* order; a slot goes from Idle to Acquiring to Recording to Submitted, and
\* leaves Submitted only with its fence becoming signaled.
C23_FrameStepsInOrder ==
    [][(unit.phase = "frame" /\ unit'.phase = "frame") =>
          /\ (unit.pc = "queue_present" /\ unit'.ret = "Ok") =>
                /\ unit'.log = FrameCalls
                /\ unit'.current_frame = (unit.current_frame + 1) % 2
                /\ unit'.draw_pool = 0
          /\ \A i \in Slots :
                LET from == SlotState(unit, i)
                    to   == SlotState(unit', i)
                IN /\ from # to =>
                         \/ <<from, to>> \in {<<"Idle", "Acquiring">>, <<"Acquiring", "Recording">>,
                                              <<"Recording", "Submitted">>, <<"Submitted", "Idle">>}
                         \/ unit'.ret = "Err" /\ to = "Idle"
                   /\ (from = "Submitted" /\ to # "Submitted") =>
                         ~unit.fences_inflight[i] /\ unit'.fences_inflight[i]]_vars

\* The third draw_request has returned Ok, on the slot of the first.
C23_Witness ==
    /\ unit.phase = "frame"
    /\ unit.pc = "idle"
    /\ unit.ret = "Ok"
    /\ unit.frame = MaxFrames
    /\ unit.log = FrameCalls
    /\ unit.current_frame = 1
    /\ unit.faults = 0

\* C24: the colour output of a frame's submission starts only after the
\* acquisition of the frame's image has signaled the acquire semaphore, and
\* a frame is presented only after its submission has completed and
\* signaled the release semaphore.
C24_SemaphoresOrderFrame ==
    unit.phase = "frame" =>
        /\ unit.output \subseteq unit.acquired
        /\ unit.presented \subseteq unit.rendered

\* C25: when acquire_next_image fails, draw_request returns Err with the
\* slot's in-flight fence reset, no submission pending that would signal
\* it and current_frame unchanged; from then on no draw_request gets past
\* its fence wait.
C25_AcquireFailureBlocks ==
    [][(unit'.phase = "frame" /\ unit'.err = "acquire_next_image") =>
          /\ ~unit'.fences_inflight[unit'.current_frame]
          /\ \A k \in 1..Len(unit'.graphics_queue) :
                unit'.graphics_queue[k].slot # unit'.current_frame
          /\ unit'.pc \in {"idle", "wait_for_fences"}
          /\ unit.phase = "frame" => unit'.current_frame = unit.current_frame]_vars

\* A later draw_request waits for the fence of the slot whose acquisition
\* failed, with the queues drained.
C25_Witness ==
    /\ unit.phase = "frame"
    /\ unit.err = "acquire_next_image"
    /\ unit.frame >= 2
    /\ unit.pc = "wait_for_fences"
    /\ unit.graphics_queue = <<>>
    /\ unit.present_queue = <<>>

\* C26: when every call succeeds and the GPU completes what is submitted,
\* every draw_request that has started returns, and the first
\* draw_request on each of the two slots finds its fence signaled at the
\* fence wait, as the fences are created signaled.
C26_DrawRequestReturns ==
    /\ [](unit.phase = "frame" /\ unit.pc = "wait_for_fences"
            /\ unit.frame <= MAX_FRAMES_INFLIGHT
          => unit.fences_inflight[unit.current_frame])
    /\ (unit.phase = "frame" /\ unit.pc # "idle")
          ~> (unit.phase = "frame" /\ unit.pc = "idle" /\ unit.ret = "Ok")

\* The first draw_request on the second slot is past its fence wait while
\* the GPU has completed nothing yet.
C26_Witness ==
    /\ unit.phase = "frame"
    /\ unit.frame = MAX_FRAMES_INFLIGHT
    /\ unit.pc = "reset_fences"
    /\ unit.rendered = {}

\* C29: whenever queue_submit gives a submission the release semaphore of
\* its slot to signal, that semaphore is unsignaled and no present queued
\* earlier still waits for it.
C29_ReleaseSemaphoreFree ==
    [][(unit.phase = "frame" /\ unit.pc = "queue_submit"
          /\ unit'.pc = "queue_present") =>
          /\ unit.semaphores_release[unit.current_frame] = 0
          /\ \A k \in 1..Len(unit.present_queue) :
                present_wait_semaphore(unit.present_queue[k].slot) # unit.current_frame]_vars

(***************************************************************************)
(* Properties of the calls of recreate_swapchain and Drop (SpecSwap).      *)
(***************************************************************************)
\* The part of recreate_swapchain a call belongs to.
CallClass(call) ==
    CASE call = "device_wait_idle" -> 0
      [] call \in DestroyCalls -> 1
      [] call = "viewport" -> 2
      [] OTHER -> 3

\* The stored objects a frame still executing refers to: its framebuffer,
\* the image view of the framebuffer and the swapchain of the view's image.
Referenced(u) ==
    LET ks == {k \in 1..Len(u.frame_buffers) : u.frame_buffers[k] \in u.executing}
    IN {u.frame_buffers[k] : k \in ks} \cup {u.image_views[k] : k \in ks}
         \cup (IF u.executing = {} THEN {} ELSE {u.swapchain})

\* The set of the entries of a log.
Logged(calls) == {calls[i] : i \in 1..Len(calls)}

\* C27: in recreate_swapchain with a non-zero size the calls come in the
\* order device_wait_idle, destroys, viewport and scissor update, creates;
\* no object is destroyed while a frame still executing refers to it; and a
\* call that returns Ok has waited, destroyed every old swapchain, image
\* view and framebuffer, set viewport and scissor and created the new ones.
C27_RecreateOrder ==
    [][(unit'.phase = "swap" /\ unit'.op = "recreate_swapchain"
          /\ ~ZeroExtent(unit'.new_size)) =>
          /\ \A i, j \in 1..Len(unit'.calls) :
                i < j => CallClass(unit'.calls[i].call) <= CallClass(unit'.calls[j].call)
          /\ unit.phase = "swap" =>
                \A h \in 1..Len(unit.objects) :
                   (unit.objects[h].alive /\ ~unit'.objects[h].alive)
                      => h \notin Referenced(unit)
          /\ (unit'.pc = "idle" /\ unit'.ret = "Ok") =>
                /\ unit'.calls[1].call = "device_wait_idle"
                /\ Range(Calls("destroy_swapchain", <<unit'.old.swapchain>>)
                         \o Calls("destroy_image_view", unit'.old.image_views)
                         \o Calls("destroy_framebuffer", unit'.old.frame_buffers)
                         \o Calls("viewport", <<0>>)
                         \o Calls("create_swapchain", <<unit'.swapchain>>)
                         \o Calls("create_image_view", unit'.image_views)
                         \o Calls("create_framebuffer", unit'.frame_buffers))
                      \subseteq Logged(unit'.calls)
                /\ unit'.viewport = <<FromInt(unit'.new_size[1]), FromInt(unit'.new_size[2])>>
                /\ unit'.scissor = unit'.new_size]_vars

\* The second recreate_swapchain of a renderer that has submitted frames
\* has returned Ok.
C27_Witness ==
    /\ unit.phase = "swap"
    /\ unit.op = "recreate_swapchain"
    /\ ~ZeroExtent(unit.new_size)
    /\ unit.pc = "idle"
    /\ unit.ret = "Ok"
    /\ unit.recreates = 2
    /\ unit.submits >= 2
    /\ Len(unit.calls) >= 8

\* In the log every entry a comes before every entry b.
Before(calls, a, b) ==
    \A i, j \in 1..Len(calls) : (calls[i] = a /\ calls[j] = b) => i < j

\* C28: in recreate_swapchain and in drop a framebuffer is destroyed before
\* the image view it refers to and an image view before the swapchain of
\* its image; in drop every object created from the device is destroyed
\* before the device, and the device before the instance.
C28_DestroyOrder ==
    (unit.phase = "swap" /\ unit.op \in {"recreate_swapchain", "drop"}) =>
        /\ \A k \in 1..Len(unit.old.frame_buffers) :
              /\ Before(unit.calls,
                        [call |-> "destroy_framebuffer", handle |-> unit.old.frame_buffers[k]],
                        [call |-> "destroy_image_view", handle |-> unit.old.image_views[k]])
              /\ Before(unit.calls,
                        [call |-> "destroy_image_view", handle |-> unit.old.image_views[k]],
                        [call |-> "destroy_swapchain", handle |-> unit.old.swapchain])
        /\ unit.op = "drop" =>
              /\ \A i, j \in 1..Len(unit.calls) :
                    /\ (unit.calls[i].call \in DeviceOwned
                          /\ unit.calls[j].call = "destroy_device") => i < j
                    /\ (unit.calls[i].call = "destroy_device"
                          /\ unit.calls[j].call = "destroy_instance") => i < j
              /\ {"destroy_device", "destroy_instance"}
                    \subseteq {unit.calls[i].call : i \in 1..Len(unit.calls)}

(***************************************************************************)
(* The mesh table of the loader (SpecLoad).                                *)
(***************************************************************************)
RECURSIVE IndexCountSum(_)
\* The sum of the index_count of the meshes of a pool.
IndexCountSum(pool) ==
    IF pool = <<>> THEN 0 ELSE Head(pool).index_count + IndexCountSum(Tail(pool))

\* C30: the mesh table load_obj_files returns partitions the index buffer:
\* the first mesh starts at 0, every later mesh where the mesh before it
\* ends, and the index counts add up to the length of the index buffer.
C30_MeshTablePartition ==
    (unit.phase = "loaded" /\ unit.st.result = "Ok") =>
        /\ unit.st.pool # <<>>
        /\ unit.st.pool[1].index_offset = 0
        /\ \A k \in 2..Len(unit.st.pool) :
              unit.st.pool[k].index_offset
                 = unit.st.pool[k - 1].index_offset + unit.st.pool[k - 1].index_count
        /\ IndexCountSum(unit.st.pool) = Len(unit.st.indices)

(***************************************************************************)
(* The glyph table (SpecGlyph).                                            *)
(***************************************************************************)
\* The bytes from 127 on and the control bytes other than line feed.
SkippedBytes(last) == (127..last) \cup ((0..31) \ {10})

\* The iteration for the byte pushed nothing, left the cursor where it was
\* and did not fail.
ByteSkipped ==
    /\ unit.result = "Ok"
    /\ unit.st.out = unit.before.out
    /\ unit.st.cursor = unit.before.cursor

Queued == SubSeq(unit.st.out, Len(unit.before.out) + 1, Len(unit.st.out))

\* C32: Renderer::shape maps the six shape types to six distinct mesh
\* indices in 52..57 and every glyph of the glyph table is at most 51; an
\* instance queued by text has a glyph index and an instance queued by
\* shape or add_shape the index of its shape type, all below 58; and
\* draw_from_pool finds every queued instance in the table of 58 meshes.
C32_ObjectIndexInTable ==
    /\ \A s \in ShapeTypes : ShapeObjectIndex(s) \in 52..57
    /\ \A s, t \in ShapeTypes : s # t => ShapeObjectIndex(s) # ShapeObjectIndex(t)
    /\ \A b \in DOMAIN CHAR_OBJECT_POOL :
          CHAR_OBJECT_POOL[b] \notin {253, 254, 255} => CHAR_OBJECT_POOL[b] <= 51
    /\ unit.phase = "glyph" =>
          /\ \A i \in 1..Len(unit.st.out) : unit.st.out[i].object_index < 58
          /\ unit.byte >= 0 =>
                \A i \in 1..Len(Queued) : Queued[i].object_index \in 0..51
          /\ unit.shape # "none" =>
                /\ Len(Queued) = 1
                /\ Queued[1].object_index = ShapeObjectIndex(unit.shape)
                /\ Queued[1].object_index \in 52..57
          /\ unit.drawn.result # "panic"
          /\ unit.drawn.result = "Ok" =>
                Len(unit.drawn.commands) = 2 * Len(unit.st.out)

\* A rectangle queued by add_shape after an 'A' has been looked up by
\* draw_from_pool.
C32_Witness ==
    /\ unit.phase = "glyph"
    /\ unit.shape = "Rectangle"
    /\ unit.via = "add_shape"
    /\ unit.prefix = <<65>>
    /\ unit.drawn.result = "Ok"
    /\ Len(unit.drawn.commands) = 4

(***************************************************************************)
(* The order of Drop for Renderer (SpecSwap).                              *)
(***************************************************************************)
\* The place of an object in a sequence of objects, 0 when it is not there.
PlaceOf(order, object) ==
    IF \E i \in 1..Len(order) : order[i] = object
    THEN CHOOSE i \in 1..Len(order) :
             order[i] = object /\ \A j \in 1..(i - 1) : order[j] # object
    ELSE 0

\* The first place of an object of a class in a sequence of objects.
FirstOfClass(order, class) ==
    CHOOSE i \in 1..Len(order) :
        /\ DropClass(order[i]) = class
        /\ \A j \in 1..(i - 1) : DropClass(order[j]) # class

\* The classes begin in the order buffers, sync objects, pools, pipeline,
\* views, swapchain, device, instance.
ClassesBeginInOrder(order) ==
    \A c \in 1..7 : FirstOfClass(order, c) < FirstOfClass(order, c + 1)

Dropped == unit.phase = "swap" /\ unit.op = "drop"

ImageCountOf(c) ==
    IF c[2] = 0 THEN c[1] + 1
    ELSE IF c[1] + 1 < c[2] THEN c[1] + 1 ELSE c[2]

\* C34: the image count SwapchainExtension::new and every recreate_swapchain
\* ask create_swapchain for is min_image_count + 1 when max_image_count is
\* 0, and the smaller of min_image_count + 1 and max_image_count otherwise;
\* creation and recreation ask for the same count.
C34_ImageCount ==
    unit.phase = "swap" =>
        \A i \in 1..Len(unit.min_image_count) :
            /\ unit.min_image_count[i] = ImageCountOf(unit.caps)
            /\ unit.min_image_count[i] = unit.min_image_count[1]

C34_Witness ==
    /\ unit.phase = "swap"
    /\ unit.caps[2] > 0
    /\ unit.caps[1] + 1 > unit.caps[2]
    /\ Len(unit.min_image_count) = 3
    /\ unit.min_image_count[3] = unit.caps[2]

(***************************************************************************)
(* The extents after recreate_swapchain (SpecSwap).                        *)
(***************************************************************************)
\* The f32 a is the integer n >= 0.
F32IsInteger(a, n) ==
    /\ IsNum(a)
    /\ a.s = 0
    /\ IF a.m = 0 THEN n = 0
       ELSE IF a.e >= 0 THEN a.m * Pow2(a.e) = n
       ELSE a.e > -MantBits /\ a.m = n * Pow2(-a.e)

\* C35: when every recreate_swapchain so far has returned Ok, the extent of
\* the viewport, the extent of the scissor and the extent the framebuffers
\* were created with are the size of the last call whose width and height
\* were both not zero, or the initial window size without such a call.
C35_ExtentsFollowLastSize ==
    (unit.phase = "swap" /\ unit.pc = "idle" /\ unit.ret = "Ok" /\ unit.op # "drop") =>
        /\ F32IsInteger(unit.viewport[1], unit.last_size[1])
        /\ F32IsInteger(unit.viewport[2], unit.last_size[2])
        /\ unit.scissor = unit.last_size
        /\ unit.frame_buffers # <<>>
        /\ \A k \in 1..Len(unit.frame_buffers) :
              /\ unit.objects[unit.frame_buffers[k]].alive
              /\ unit.objects[unit.frame_buffers[k]].extent = unit.last_size

C35_Witness ==
    /\ unit.phase = "swap"
    /\ unit.pc = "idle"
    /\ unit.ret = "Ok"
    /\ unit.op = "recreate_swapchain"
    /\ unit.recreates = 2
    /\ unit.new_size[1] = 0
    /\ unit.last_size = <<600, 800>>
    /\ unit.scissor = <<600, 800>>

(***************************************************************************)
(* The entries of the mesh table (SpecLoad).                               *)
(***************************************************************************)
RECURSIVE DeclaredNames(_)
\* The names of the object lines of a sequence of lines, in their order.
DeclaredNames(lines) ==
    IF lines = <<>> THEN <<>>
    ELSE (IF Head(lines).kind = "o" THEN <<Head(lines).name>> ELSE <<>>)
           \o DeclaredNames(Tail(lines))

RECURSIVE AllLines(_)
\* The lines of a list of files, in file order.
AllLines(files) ==
    IF files = <<>> THEN <<>> ELSE Head(files) \o AllLines(Tail(files))

\* C36: the mesh table load_obj_files returns has one entry for every
\* object line of the loaded files, in file order, whatever the files are.
C36_OneEntryPerObjectLine ==
    (unit.phase = "loaded" /\ unit.st.result = "Ok") =>
        [k \in 1..Len(unit.st.pool) |-> unit.st.pool[k].name]
           = DeclaredNames(AllLines(unit.files))

(***************************************************************************)
(* The world of the conversions and the view box of the camera (SpecCoord).*)
(***************************************************************************)
\* C37: in every window of non-zero extents the world extents of the
\* coordinate conversions are the view box of the camera's orthographic
\* projection (right plane, and top or bottom plane), and the world position
\* of a pixel is drawn within half a pixel of that pixel.
C37_WorldIsViewBox ==
    (coord.phase = "world" /\ coord.size[1] > 0 /\ coord.size[2] > 0) =>
        LET size   == CameraSize(coord.size)
            planes == orthographic_planes(size[1], size[2])
        IN /\ world(size[1], size[2])[1] = planes[2]
           /\ world(size[1], size[2])[2] \in {planes[3], planes[4]}
           /\ Within(coord.drawn[1], coord.pixel[1], F32Half)
           /\ Within(coord.drawn[2], coord.pixel[2], F32Half)
=============================================================================
